---- MODULE Spec2Model ----
(***************************************************************************)
(* Model of the TMDb dataset builder (src/tmdb_dataset_builder):           *)
(*   validators.py    MovieValidator      (pure functions)                 *)
(*   cache_manager.py CacheManager        (map, counters, snapshot file)   *)
(*   tmdb_client.py   TMDbClient          (session with Retry, requests)   *)
(*   movie_fetcher.py MovieFetcher        (cache / API / validate / store) *)
(*   main.py          TMDbDataPipeline    (batch loop, statistics)         *)
(***************************************************************************)
EXTENDS Integers, Sequences, FiniteSets, TLC

(***************************************************************************)
(* Python values.  A value is tagged with its Python type so that values   *)
(* of different types can be held in one dict field.                       *)
(***************************************************************************)
None == [t |-> "none"]
PyInt(n) == [t |-> "int", v |-> n]
PyStr(s) == [t |-> "str", v |-> s]
PyList(l) == [t |-> "list", v |-> l]
\* float('nan'): what pandas gives for an empty cell
NaN == [t |-> "float", v |-> "nan"]
\* A finite float with one decimal place: -2.5 is PyFloat(TRUE, 2, 5)
PyFloat(neg, whole, tenths) ==
    [t |-> "float", v |-> "num", neg |-> neg, whole |-> whole, tenths |-> tenths]
\* float('inf')
Inf == [t |-> "float", v |-> "inf"]

\* The element of a one-element set.  Only({F(v) : v \in {x}}) is F(x) with x
\* evaluated once, as a local variable is by an assignment.
Only(S) == CHOOSE y \in S : TRUE

\* A string is a sequence of one-character strings.
Rep(c, n) == [i \in 1..n |-> c]

Whitespace == {" ", "\t", "\n", "\r"}

UpperChars == <<"A", "B", "C", "D", "E", "F", "G", "H", "I", "J", "K", "L", "M",
                "N", "O", "P", "Q", "R", "S", "T", "U", "V", "W", "X", "Y", "Z">>
LowerChars == <<"a", "b", "c", "d", "e", "f", "g", "h", "i", "j", "k", "l", "m",
                "n", "o", "p", "q", "r", "s", "t", "u", "v", "w", "x", "y", "z">>

\* str.lower() on one character
LowerChar(c) ==
    IF \E i \in 1..Len(UpperChars) : UpperChars[i] = c
    THEN LowerChars[CHOOSE i \in 1..Len(UpperChars) : UpperChars[i] = c]
    ELSE c

\* str.lower()
Lower(s) == Only({[i \in 1..Len(v) |-> LowerChar(v[i])] : v \in {s}})

\* str.lstrip() / str.rstrip() / str.strip() with no argument
RECURSIVE LStrip(_)
LStrip(s) == IF s /= <<>> /\ Head(s) \in Whitespace THEN LStrip(Tail(s)) ELSE s

RECURSIVE RStrip(_)
RStrip(s) ==
    IF s /= <<>> /\ s[Len(s)] \in Whitespace THEN RStrip(SubSeq(s, 1, Len(s) - 1)) ELSE s

Strip(s) == RStrip(LStrip(s))

\* str.replace(old, new) for one-character old and new
Replace(s, old, new) ==
    Only({[i \in 1..Len(v) |-> IF v[i] = old THEN new ELSE v[i]] : v \in {s}})

\* ' '.join(s.split()): the whitespace-separated words joined by single spaces
\* The length of the first word of t, a string that begins with a word
FirstWord(t) ==
    IF \E i \in 1..Len(t) : t[i] \in Whitespace
    THEN (CHOOSE i \in 1..Len(t) :
             t[i] \in Whitespace /\ \A j \in 1..(i - 1) : t[j] \notin Whitespace) - 1
    ELSE Len(t)

\* A first word followed by the rest, already joined
JoinWords(word, rest) == Only({word \o (IF r = <<>> THEN <<>> ELSE <<" ">> \o r) : r \in {rest}})

RECURSIVE JoinSplit(_)
JoinSplit(s) ==
    Only({IF t = <<>> THEN <<>>
          ELSE Only({JoinWords(SubSeq(t, 1, n), JoinSplit(SubSeq(t, n + 1, Len(t)))) :
                        n \in {FirstWord(t)}}) :
             t \in {LStrip(s)}})

Digits == <<"0", "1", "2", "3", "4", "5", "6", "7", "8", "9">>
IsDigit(c) == \E i \in 1..10 : Digits[i] = c
DigitVal(c) == (CHOOSE i \in 1..10 : Digits[i] = c) - 1

RECURSIVE DigitsToInt(_)
DigitsToInt(s) ==
    Only({IF v = <<>> THEN 0
          ELSE 10 * DigitsToInt(SubSeq(v, 1, Len(v) - 1)) + DigitVal(v[Len(v)]) :
             v \in {s}})

AllDigits(s) == s /= <<>> /\ \A i \in 1..Len(s) : IsDigit(s[i])

\* int(x): [ok |-> TRUE, v |-> n], or [ok |-> FALSE, err |-> e] for the exception
\* it raises.  A float is truncated towards zero; int(float('nan')) is a
\* ValueError and int(float('inf')) an OverflowError.
PyIntOf(x) ==
    CASE x.t = "int" -> [ok |-> TRUE, v |-> x.v]
      [] x.t = "str" ->
           LET s == Strip(x.v)
               body == IF s /= <<>> /\ Head(s) \in {"+", "-"} THEN Tail(s) ELSE s
               neg == s /= <<>> /\ Head(s) = "-"
           IN IF AllDigits(body)
              THEN [ok |-> TRUE, v |-> IF neg THEN 0 - DigitsToInt(body) ELSE DigitsToInt(body)]
              ELSE [ok |-> FALSE, err |-> "ValueError"]
      [] x.t = "float" ->
           IF x.v = "num" THEN [ok |-> TRUE, v |-> IF x.neg THEN 0 - x.whole ELSE x.whole]
           ELSE IF x.v = "inf" THEN [ok |-> FALSE, err |-> "OverflowError"]
           ELSE [ok |-> FALSE, err |-> "ValueError"]
      [] OTHER -> [ok |-> FALSE, err |-> "TypeError"]

\* `except (ValueError, TypeError)` around int(x) lets this exception through
IntEscapes(x) == ~PyIntOf(x).ok /\ PyIntOf(x).err = "OverflowError"

\* Python truth value of a value (bool(x))
Truthy(x) ==
    CASE x.t = "none" -> FALSE
      [] x.t = "int" -> x.v /= 0
      [] x.t = "str" -> x.v /= <<>>
      [] x.t = "list" -> x.v /= <<>>
      [] x.t = "float" -> ~(x.v = "num" /\ x.whole = 0 /\ x.tenths = 0)
      [] OTHER -> TRUE

(***************************************************************************)
(* A dict is a function from a finite set of field names to values.        *)
(***************************************************************************)
Has(d, f) == f \in DOMAIN d
Get(d, f, default) == IF f \in DOMAIN d THEN d[f] ELSE default
Put(d, f, x) ==
    Only({[g \in (DOMAIN dv) \cup {f} |-> IF g = f THEN xv ELSE dv[g]] :
             dv \in {d}, xv \in {x}})
Update(d, e) ==
    Only({[g \in (DOMAIN dv) \cup (DOMAIN ev) |-> IF g \in DOMAIN ev THEN ev[g] ELSE dv[g]] :
             dv \in {d}, ev \in {e}})
EmptyDict == [g \in {} |-> None]

(***************************************************************************)
(* config.py: data validation rules                                        *)
(***************************************************************************)
MIN_OVERVIEW_LENGTH == 20
MIN_YEAR == 1888
MAX_YEAR == 2030
REQUIRED_FIELDS == <<"tmdb_id", "title", "overview", "release_date">>
MIN_GENRES == 1

(***************************************************************************)
(* validators.py                                                           *)
(***************************************************************************)
\* A result of validate_movie: (is_valid, msg), or an exception raised.
\* msg is the fixed prefix of the message the code formats.
Accept == [raised |-> FALSE, ok |-> TRUE, msg |-> ""]
Reject(m) == [raised |-> FALSE, ok |-> FALSE, msg |-> m]
Raised(e) == [raised |-> TRUE, exc |-> e]

\* Validação 1: the first required field that is absent or None (0 if none)
FirstMissingRequired(movie_data) ==
    IF \E i \in 1..Len(REQUIRED_FIELDS) :
          ~Has(movie_data, REQUIRED_FIELDS[i]) \/ movie_data[REQUIRED_FIELDS[i]] = None
    THEN CHOOSE i \in 1..Len(REQUIRED_FIELDS) :
          /\ ~Has(movie_data, REQUIRED_FIELDS[i]) \/ movie_data[REQUIRED_FIELDS[i]] = None
          /\ \A j \in 1..(i - 1) :
                Has(movie_data, REQUIRED_FIELDS[j]) /\ movie_data[REQUIRED_FIELDS[j]] /= None
    ELSE 0

\* Validação 4: "" when the year passes, else the message
YearCheck(year) ==
    IF year = None THEN ""
    ELSE LET p == PyIntOf(year) IN
         IF IntEscapes(year) THEN "OverflowError"
         ELSE IF ~p.ok THEN "Ano invalido"
         ELSE IF p.v < MIN_YEAR \/ p.v > MAX_YEAR THEN "Ano fora do intervalo valido"
         ELSE ""

\* Validação 5: len(genres) inside the message raises TypeError when genres is None
GenresCheck(genres) ==
    IF ~Truthy(genres) \/ Len(genres.v) < MIN_GENRES
    THEN IF genres.t = "none" THEN Raised("TypeError") ELSE Reject("Generos insuficientes")
    ELSE Accept

\* A variant of validate_movie that looks at the year before the overview
validate_movie_YearFirst(movie_data) ==
    LET miss == FirstMissingRequired(movie_data)
        overview == Get(movie_data, "overview", PyStr(<<>>))
        year == Get(movie_data, "year", None)
        genres == Get(movie_data, "genres", PyList(<<>>))
    IN IF miss /= 0 THEN Reject("Campo obrigatorio ausente: " \o REQUIRED_FIELDS[miss])
       ELSE IF YearCheck(year) = "OverflowError" THEN Raised("OverflowError")
       ELSE IF YearCheck(year) /= "" THEN Reject(YearCheck(year))
       ELSE IF Len(overview.v) < MIN_OVERVIEW_LENGTH THEN Reject("Overview muito curto")
       ELSE IF Strip(overview.v) = <<>> THEN Reject("Overview e string vazia")
       ELSE GenresCheck(genres)

validate_movie(movie_data) ==
    LET miss == FirstMissingRequired(movie_data)
        overview == Get(movie_data, "overview", PyStr(<<>>))
        year == Get(movie_data, "year", None)
        genres == Get(movie_data, "genres", PyList(<<>>))
    IN IF miss /= 0 THEN Reject("Campo obrigatorio ausente: " \o REQUIRED_FIELDS[miss])
       ELSE IF Len(overview.v) < MIN_OVERVIEW_LENGTH THEN Reject("Overview muito curto")
       ELSE IF Strip(overview.v) = <<>> THEN Reject("Overview e string vazia")
       ELSE IF YearCheck(year) = "OverflowError" THEN Raised("OverflowError")
       ELSE IF YearCheck(year) /= "" THEN Reject(YearCheck(year))
       ELSE GenresCheck(genres)

is_valid_tmdb_id(tmdb_id) ==
    LET p == PyIntOf(tmdb_id) IN p.ok /\ p.v > 0

\* A variant of is_valid_year that leaves MAX_YEAR itself out
is_valid_year_Exclusive(year) ==
    LET p == PyIntOf(year) IN p.ok /\ MIN_YEAR <= p.v /\ p.v < MAX_YEAR

is_valid_year(year) ==
    LET p == PyIntOf(year) IN p.ok /\ MIN_YEAR <= p.v /\ p.v <= MAX_YEAR

\* A variant of sanitize_text without `' '.join(text.split())`
sanitize_text_NoJoin(text) ==
    IF ~Truthy(text) THEN <<>>
    ELSE Strip(Replace(Replace(Replace(text.v, "\n", " "), "\r", " "), "\"", "'"))

\* sanitize_text takes a value (None or a str) and returns a string
sanitize_text(text) ==
    IF ~Truthy(text) THEN <<>>
    ELSE Strip(Replace(JoinSplit(Replace(Replace(text.v, "\n", " "), "\r", " ")), "\"", "'"))

(***************************************************************************)
(* config.py: client and feature configuration                             *)
(***************************************************************************)
MAX_RETRIES == 3
RETRYABLE_STATUS_CODES == {429, 500, 502, 503, 504}
FATAL_STATUS_CODES == {401, 403}
TOP_CAST_COUNT == 10

(***************************************************************************)
(* Bounds of the model                                                      *)
(***************************************************************************)
NumRows == 2       \* input rows of one run
MaxId == 2         \* movie ids known to the remote: 1..MaxId

(***************************************************************************)
(* str(x) as used in f-strings                                             *)
(***************************************************************************)
RECURSIVE NatToStr(_)
NatToStr(n) ==
    IF n < 10 THEN <<Digits[n + 1]>> ELSE NatToStr(n \div 10) \o <<Digits[(n % 10) + 1]>>

PyStrOf(x) ==
    CASE x.t = "int" -> IF x.v < 0 THEN <<"-">> \o NatToStr(0 - x.v) ELSE NatToStr(x.v)
      [] x.t = "str" -> x.v
      [] x.t = "float" ->
           IF x.v = "num"
           THEN (IF x.neg THEN <<"-">> ELSE <<>>) \o NatToStr(x.whole) \o <<".">> \o NatToStr(x.tenths)
           ELSE IF x.v = "inf" THEN <<"i", "n", "f">>
           ELSE <<"n", "a", "n">>
      [] OTHER -> <<"N", "o", "n", "e">>

(***************************************************************************)
(* cache_manager.py: keys                                                  *)
(***************************************************************************)
\* f"id_{tmdb_id}"
make_id_key(tmdb_id) == <<"i", "d", "_">> \o PyStrOf(tmdb_id)

\* f"{title.lower().strip()}_{str(year) if year else 'unknown'}"
make_title_key(title, year) ==
    Strip(Lower(title.v)) \o <<"_">> \o
        (IF Truthy(year) THEN PyStrOf(year) ELSE <<"u", "n", "k", "n", "o", "w", "n">>)

\* bool(cache_manager): CacheManager defines __len__, so an empty cache is falsy
CacheTruthy(c) == DOMAIN c /= {}

\* CacheManager.set: the timestamp is written into the value, then the value is stored
cache_set(c, key, value, now) == Put(c, key, Put(value, "fetched_at", PyInt(now)))

\* CacheManager.set_movie: both keys hold the one dict object, so the second
\* set's timestamp shows under both keys.
set_movie_keys(movie_data) ==
    (IF Has(movie_data, "tmdb_id") THEN {make_id_key(movie_data["tmdb_id"])} ELSE {}) \cup
    (IF Has(movie_data, "title")
     THEN {make_title_key(movie_data["title"], Get(movie_data, "year", None))} ELSE {})

set_movie_value(movie_data, now) ==
    Put(movie_data, "fetched_at",
        PyInt(now + Cardinality({f \in {"tmdb_id", "title"} : Has(movie_data, f)}) - 1))

set_movie(c, movie_data, now) ==
    [k \in (DOMAIN c) \cup set_movie_keys(movie_data) |->
        IF k \in set_movie_keys(movie_data) THEN set_movie_value(movie_data, now) ELSE c[k]]

(***************************************************************************)
(* movie_fetcher.py: field extraction                                      *)
(***************************************************************************)
\* datetime.strptime(s, '%Y-%m-%d').year: [ok |-> TRUE, v |-> year], or
\* [ok |-> FALSE] for ValueError
DashPositions(s) == {i \in 1..Len(s) : s[i] = "-"}

DaysInMonth(y, m) ==
    IF m \in {4, 6, 9, 11} THEN 30
    ELSE IF m = 2 THEN (IF (y % 4 = 0 /\ y % 100 /= 0) \/ y % 400 = 0 THEN 29 ELSE 28)
    ELSE 31

\* The parts of s between its two dashes, or <<>> when s has not two dashes
DateParts(s) ==
    Only({IF Cardinality(DashPositions(v)) /= 2 THEN <<>>
          ELSE LET d1 == CHOOSE i \in DashPositions(v) : \A j \in DashPositions(v) : i <= j
                   d2 == CHOOSE i \in DashPositions(v) : \A j \in DashPositions(v) : j <= i
               IN <<SubSeq(v, 1, d1 - 1), SubSeq(v, d1 + 1, d2 - 1), SubSeq(v, d2 + 1, Len(v))>> :
             v \in {s}})

ParseYear(s) ==
    Only({IF /\ p /= <<>>
             /\ Len(p[1]) = 4 /\ AllDigits(p[1])
             /\ Len(p[2]) \in {1, 2} /\ AllDigits(p[2])
             /\ Len(p[3]) \in {1, 2} /\ AllDigits(p[3])
             /\ DigitsToInt(p[1]) >= 1
             /\ DigitsToInt(p[2]) \in 1..12
             /\ DigitsToInt(p[3]) \in 1..DaysInMonth(DigitsToInt(p[1]), DigitsToInt(p[2]))
          THEN [ok |-> TRUE, v |-> DigitsToInt(p[1])]
          ELSE [ok |-> FALSE] :
             p \in {DateParts(s)}})

extract_essential_fields(data) ==
    LET release_date == Get(data, "release_date", PyStr(<<>>))
        year == IF Truthy(release_date) /\ ParseYear(release_date.v).ok
                THEN PyInt(ParseYear(release_date.v).v) ELSE None
    IN [tmdb_id |-> Get(data, "id", None),
        title |-> PyStr(sanitize_text(Get(data, "title", PyStr(<<>>)))),
        overview |-> PyStr(sanitize_text(Get(data, "overview", PyStr(<<>>)))),
        release_date |-> release_date,
        year |-> year]

\* [g['name'] for g in genres_data] raises TypeError when genres_data is not a
\* list and KeyError when a genre has no 'name' (or no 'id')
ImportantRaises(data) ==
    LET genres_data == Get(data, "genres", PyList(<<>>)) IN
    \/ genres_data.t /= "list"
    \/ \E i \in 1..Len(genres_data.v) :
          ~Has(genres_data.v[i], "name") \/ ~Has(genres_data.v[i], "id")

extract_important_fields(data) ==
    LET genres_data == Get(data, "genres", PyList(<<>>)).v IN
    [genres |-> PyList([i \in 1..Len(genres_data) |-> genres_data[i]["name"]]),
     genre_ids |-> PyList([i \in 1..Len(genres_data) |-> genres_data[i]["id"]]),
     vote_average |-> Get(data, "vote_average", None),
     vote_count |-> Get(data, "vote_count", None),
     popularity |-> Get(data, "popularity", None)]

\* A variant of _extract_optional_fields that stores the tagline as received
extract_optional_fields_RawTagline(data) ==
    [original_title |-> PyStr(sanitize_text(Get(data, "original_title", PyStr(<<>>)))),
     original_language |-> Get(data, "original_language", None),
     runtime |-> Get(data, "runtime", None),
     poster_path |-> Get(data, "poster_path", None),
     backdrop_path |-> Get(data, "backdrop_path", None),
     tagline |-> Get(data, "tagline", PyStr(<<>>)),
     budget |-> Get(data, "budget", None),
     revenue |-> Get(data, "revenue", None)]

extract_optional_fields(data) ==
    [original_title |-> PyStr(sanitize_text(Get(data, "original_title", PyStr(<<>>)))),
     original_language |-> Get(data, "original_language", None),
     runtime |-> Get(data, "runtime", None),
     poster_path |-> Get(data, "poster_path", None),
     backdrop_path |-> Get(data, "backdrop_path", None),
     tagline |-> PyStr(sanitize_text(Get(data, "tagline", PyStr(<<>>)))),
     budget |-> Get(data, "budget", None),
     revenue |-> Get(data, "revenue", None)]

\* cast_list[:n]
Take(l, n) == SubSeq(l, 1, IF Len(l) < n THEN Len(l) ELSE n)

\* A variant of extract_credits that returns no fields at all
extract_credits_Nothing(credits_data) == EmptyDict

\* A variant of _extract_credits that keeps the whole cast list
extract_credits_AllCast(credits_data) ==
    IF credits_data = None \/ DOMAIN credits_data = {}
    THEN [cast |-> PyList(<<>>), cast_ids |-> PyList(<<>>), director |-> None]
    ELSE LET top_cast == Get(credits_data, "cast", PyList(<<>>)).v
             crew_list == Get(credits_data, "crew", PyList(<<>>)).v
             isDir(i) == Get(crew_list[i], "job", None) = PyStr(<<"D", "i", "r", "e", "c", "t", "o", "r">>)
         IN [cast |-> PyList([i \in 1..Len(top_cast) |-> top_cast[i]["name"]]),
             cast_ids |-> PyList([i \in 1..Len(top_cast) |-> top_cast[i]["id"]]),
             director |-> IF \E i \in 1..Len(crew_list) : isDir(i)
                          THEN crew_list[CHOOSE i \in 1..Len(crew_list) :
                                   isDir(i) /\ \A j \in 1..(i - 1) : ~isDir(j)]["name"]
                          ELSE None]

\* _extract_credits, given what get_movie_credits returned
extract_credits(credits_data) ==
    IF credits_data = None \/ DOMAIN credits_data = {}
    THEN [cast |-> PyList(<<>>), cast_ids |-> PyList(<<>>), director |-> None]
    ELSE LET top_cast == Take(Get(credits_data, "cast", PyList(<<>>)).v, TOP_CAST_COUNT)
             crew_list == Get(credits_data, "crew", PyList(<<>>)).v
             isDir(i) == Get(crew_list[i], "job", None) = PyStr(<<"D", "i", "r", "e", "c", "t", "o", "r">>)
         IN [cast |-> PyList([i \in 1..Len(top_cast) |-> top_cast[i]["name"]]),
             cast_ids |-> PyList([i \in 1..Len(top_cast) |-> top_cast[i]["id"]]),
             director |-> IF \E i \in 1..Len(crew_list) : isDir(i)
                          THEN crew_list[CHOOSE i \in 1..Len(crew_list) :
                                   isDir(i) /\ \A j \in 1..(i - 1) : ~isDir(j)]["name"]
                          ELSE None]

\* _extract_keywords, given what get_movie_keywords returned
extract_keywords(keywords_data) ==
    IF keywords_data = None \/ DOMAIN keywords_data = {}
    THEN [keywords |-> PyList(<<>>)]
    ELSE LET keyword_list == Get(keywords_data, "keywords", PyList(<<>>)).v
         IN [keywords |-> PyList([i \in 1..Len(keyword_list) |-> keyword_list[i]["name"]])]

(***************************************************************************)
(* The remote API: what it can answer.  Each answer is a choice.           *)
(***************************************************************************)
MovieIds == 1..MaxId

DateOK == <<"2", "0", "1", "0", "-", "0", "7", "-", "1", "6">>
DateBad == <<"2", "0", "1", "0">>
TitleOf(i) == IF i = 1 THEN <<"A", "b">> ELSE <<" ", "C", "\n", "d">>
Genre(n) == [id |-> PyInt(n), name |-> PyStr(<<"G">>)]

GoodDetail(i) ==
    [id |-> PyInt(i),
     title |-> PyStr(TitleOf(i)),
     overview |-> PyStr(Rep("x", MIN_OVERVIEW_LENGTH)),
     release_date |-> PyStr(DateOK),
     genres |-> PyList(<<Genre(1), Genre(2)>>)]

\* A detail payload whose texts are not in sanitized form: the overview is long
\* enough only with the blanks around it, the tagline has a double quote and
\* two blanks in a row
RawTextDetail(i) ==
    Update(GoodDetail(i),
           [overview |-> PyStr(<<" ">> \o Rep("x", MIN_OVERVIEW_LENGTH - 1) \o <<"\n">>),
            tagline |-> PyStr(<<"\"", "t", " ", " ", "u">>),
            original_title |-> PyStr(<<"\r", "O">>)])

DetailBodies(i) ==
    {GoodDetail(i),
     RawTextDetail(i),
     [GoodDetail(i) EXCEPT !.overview = PyStr(Rep("x", MIN_OVERVIEW_LENGTH - 1))],
     [GoodDetail(i) EXCEPT !.genres = PyList(<<>>)],
     [GoodDetail(i) EXCEPT !.genres = None],
     [GoodDetail(i) EXCEPT !.release_date = PyStr(DateBad)]}

Person(n) == [id |-> PyInt(n), name |-> PyStr(<<"P">> \o NatToStr(n))]
Crew(n, job) == [name |-> PyStr(<<"D">> \o NatToStr(n)), job |-> PyStr(job)]
Director == <<"D", "i", "r", "e", "c", "t", "o", "r">>
Writer == <<"W", "r", "i", "t", "e", "r">>

CreditBodies ==
    {[cast |-> PyList(<<Person(1), Person(2)>>),
      crew |-> PyList(<<Crew(1, Writer), Crew(2, Director), Crew(3, Director)>>)]}

KeywordBodies == {[keywords |-> PyList(<<[id |-> PyInt(1), name |-> PyStr(<<"k">>)]>>)]}

SearchResult(i) == [id |-> PyInt(i), title |-> PyStr(TitleOf(i))]
SearchBodies ==
    {[results |-> PyList(<<>>)]} \cup
    {[results |-> PyList(<<SearchResult(i)>>)] : i \in MovieIds} \cup
    {[results |-> PyList(<<SearchResult(p[1]), SearchResult(p[2])>>)] :
        p \in {q \in MovieIds \X MovieIds : q[1] /= q[2]}}

Bodies(op, id) ==
    CASE op = "search" -> SearchBodies
      [] op = "details" -> DetailBodies(id.v)
      [] op = "credits" -> CreditBodies
      [] op = "keywords" -> KeywordBodies

\* What one HTTP attempt can meet: a status code, or a network failure.
Statuses == {200, 400, 401, 404, 429, 500}
Outcomes == {[kind |-> "status", code |-> c] : c \in Statuses} \cup {[kind |-> "timeout"]}

(***************************************************************************)
(* tmdb_client.py                                                          *)
(***************************************************************************)
\* A variant of RetriedByAdapter for a Retry without a total: it retries for ever
RetriedByAdapter_NoBudget(o, retries) ==
    \/ o.kind = "timeout"
    \/ o.kind = "status" /\ o.code \in RETRYABLE_STATUS_CODES

\* The session's adapter (Retry(total=MAX_RETRIES, status_forcelist=
\* RETRYABLE_STATUS_CODES, allowed_methods=["GET"])) retries an attempt that
\* met a listed status or a network failure while the budget lasts.
RetriedByAdapter(o, retries) ==
    /\ retries < MAX_RETRIES
    /\ \/ o.kind = "timeout"
       \/ o.kind = "status" /\ o.code \in RETRYABLE_STATUS_CODES

\* A variant of session_get for Retry(raise_on_status=False): a listed status that
\* outlasts the budget comes back as a response
session_get_NoRaise(o) ==
    IF o.kind = "timeout" THEN [kind |-> "exc", exc |-> "Timeout"]
    ELSE [kind |-> "response", status_code |-> o.code]

\* session.get, once the adapter retries no more: a response, or an exception of
\* the RequestException family (RetryError for a listed status, Timeout /
\* ConnectionError for a network failure).
session_get(o) ==
    IF o.kind = "timeout" THEN [kind |-> "exc", exc |-> "Timeout"]
    ELSE IF o.code \in RETRYABLE_STATUS_CODES THEN [kind |-> "exc", exc |-> "RetryError"]
    ELSE [kind |-> "response", status_code |-> o.code]

\* _make_request after session.get: [kind |-> "return", value |-> data or None],
\* or [kind |-> "again"] for the recursive call of the 429 branch.
\* raise_for_status raises HTTPError, a RequestException, which the last
\* except clause of the same try turns into None.
make_request(response, body) ==
    IF response.kind = "exc" THEN [kind |-> "return", value |-> None]
    ELSE IF response.status_code \in FATAL_STATUS_CODES THEN [kind |-> "return", value |-> None]
    ELSE IF response.status_code = 404 THEN [kind |-> "return", value |-> None]
    ELSE IF response.status_code = 429 THEN [kind |-> "again"]
    ELSE IF response.status_code >= 400 THEN [kind |-> "return", value |-> None]
    ELSE [kind |-> "return", value |-> body]

\* `if not data` / `if cached` / `if movie_data`: None and {} are falsy
DictTruthy(d) == d /= None /\ DOMAIN d /= {}

\* A variant of first_result that takes the last result (results[-1])
last_result(results) == results[Len(results)]

\* search_movie: results[0]
first_result(results) == results[1]

(***************************************************************************)
(* config.py: checkpoints                                                  *)
(***************************************************************************)
CHECKPOINT_INTERVAL == 100

(***************************************************************************)
(* Inputs: the rows of the input CSV and the snapshot found on disk        *)
(***************************************************************************)
Row(title, year, tmdb_id) == [title |-> title, year |-> year, tmdb_id |-> tmdb_id]

RowSet ==
    {Row(PyStr(<<"a", "b">>), PyInt(2010), NaN),
     Row(PyStr(<<"Z", "z">>), PyInt(2010), NaN),
     Row(PyStr(<<"a", "b">>), PyInt(2010), PyInt(1)),
     Row(NaN, PyInt(2010), NaN)}

Inputs == [1..NumRows -> RowSet]

\* _enrich_movie_data without the extensions
enrich_basic(movie_data) ==
    Update(Update(extract_essential_fields(movie_data), extract_important_fields(movie_data)),
           extract_optional_fields(movie_data))

\* Snapshots a start can find: none, one written by an earlier run, and one that
\* holds a record the validator rejects.
SnapshotGood == set_movie(EmptyDict, enrich_basic(GoodDetail(1)), 0)
SnapshotStale ==
    set_movie(EmptyDict,
              enrich_basic([GoodDetail(1) EXCEPT !.overview = PyStr(<<"o", "l", "d">>)]), 0)
Snapshots ==
    {[exists |-> FALSE, doc |-> EmptyDict],
     [exists |-> TRUE, doc |-> SnapshotGood], [exists |-> TRUE, doc |-> SnapshotStale]}

\* CacheManager._load_cache
load_cache(file) == IF file.exists THEN file.doc ELSE EmptyDict

(***************************************************************************)
(* State                                                                   *)
(***************************************************************************)
VARIABLES
    rows,             \* df_input
    enable_credits,   \* MovieFetcher.enable_credits
    enable_keywords,  \* MovieFetcher.enable_keywords
    cache,            \* CacheManager.cache
    hits,             \* CacheManager.hits
    misses,           \* CacheManager.misses
    cache_file,       \* the snapshot file on disk
    clock,            \* datetime.now(), counted in cache writes
    pc,               \* where the run is
    idx,              \* rows processed so far
    results,          \* process_dataset: results
    stats,            \* TMDbDataPipeline.stats
    checkpoint_file,  \* what the last checkpoint wrote
    output_file,      \* what _save_results wrote
    cur_id,           \* fetch_by_id: tmdb_id
    req,              \* the request _make_request is in
    data,             \* what the client call returned
    enriched,         \* _enrich_movie_data: enriched
    ret,              \* what _fetch_movie returns
    calls,            \* observed: client calls of the current row, per operation
    hits0,            \* observed: hits when the current row began
    cache0,           \* observed: the cache map when the current row began
    via,              \* observed: how the current row's record was obtained
    outcome,          \* observed: per processed row, "success" or "failed"
    snapshot0,        \* observed: the snapshot the cache was loaded from
    v_in,             \* argument of the pure function under check
    v_out,            \* its result
    now,              \* time.time(), in ticks
    last_request_time,\* TMDbClient.last_request_time
    callers,          \* the threads that call the shared client
    thr,              \* per thread: where it is in _make_request, and its locals
    out,              \* observed: the outbound calls so far, with their instants
    lock,             \* CacheManager.lock: 0, or the thread that holds it
    cth,              \* per thread: the CacheManager call it is in, and its locals
    seen              \* observed: what the CacheManager's callers have done

vars == <<rows, enable_credits, enable_keywords, cache, hits, misses, cache_file, clock,
          pc, idx, results, stats, checkpoint_file, output_file, cur_id, req, data,
          enriched, ret, calls, hits0, cache0, via, outcome, snapshot0,
          v_in, v_out, now, last_request_time, callers, thr, out, lock, cth, seen>>

inputVars == <<rows, enable_credits, enable_keywords, snapshot0>>
cacheVars == <<cache, hits, misses, clock>>
limiterVars == <<now, last_request_time, callers, thr, out>>
managerVars == <<lock, cth, seen>>
unitVars == <<limiterVars, managerVars>>
pureVars == <<v_in, v_out, unitVars>>

\* One second of time.time() in ticks of the model's clock
TicksPerSecond == 90
REQUESTS_PER_SECOND == 45
RATE_LIMIT_DELAY == TicksPerSecond \div REQUESTS_PER_SECOND

\* The threads that may share one TMDbClient
Threads == {1, 2}
ThreadIdle == [pc |-> "idle", current_time |-> 0, wake |-> 0, retries |-> 0]

\* A thread that is in no CacheManager call
NoCall == [pc |-> "idle", op |-> "none", key |-> <<>>, given |-> EmptyDict,
           value |-> EmptyDict, found |-> FALSE, n |-> 0, part |-> EmptyDict,
           result |-> None, second |-> FALSE]

\* CacheManager.__init__: self.lock = Lock(), not held; nothing has been called
ManagerIdle ==
    /\ lock = 0
    /\ cth = [t \in Threads |-> NoCall]
    /\ seen = [calls |-> 0, lookups |-> 0, found |-> 0, absent |-> 0,
               between |-> {EmptyDict}, stored |-> EmptyDict, at |-> 0, instants |-> {}]

\* TMDbClient.__init__: last_request_time = 0, long before the clock's reading
LimiterIdle ==
    /\ now = RATE_LIMIT_DELAY
    /\ last_request_time = 0
    /\ callers = {1}
    /\ thr = [t \in Threads |-> ThreadIdle]
    /\ out = <<>>
    /\ ManagerIdle

\* A CSV file the run writes: not there yet, or holding the rows of one save
NoFile == [exists |-> FALSE, rows |-> <<>>]
CsvFile(movies) == [exists |-> TRUE, rows |-> movies]

NoCalls == [search |-> 0, details |-> 0, credits |-> 0, keywords |-> 0]
NoReq == [op |-> "none", retries |-> 0, last |-> 0]

\* TMDbDataPipeline.__init__ (and CacheManager.__init__, TMDbClient.__init__)
Init ==
    /\ rows \in Inputs
    /\ enable_credits \in BOOLEAN
    /\ enable_keywords \in BOOLEAN
    /\ cache_file \in Snapshots
    /\ snapshot0 = cache_file
    /\ cache = load_cache(cache_file)
    /\ hits = 0
    /\ misses = 0
    /\ clock = 1
    /\ pc = "start"
    /\ idx = 0
    /\ results = <<>>
    /\ stats = [total |-> 0, success |-> 0, failed |-> 0, invalid |-> 0, from_cache |-> 0]
    /\ checkpoint_file = NoFile
    /\ output_file = NoFile
    /\ cur_id = None
    /\ req = NoReq
    /\ data = None
    /\ enriched = EmptyDict
    /\ ret = None
    /\ calls = NoCalls
    /\ hits0 = 0
    /\ cache0 = EmptyDict
    /\ via = "none"
    /\ outcome = <<>>
    /\ v_in = None
    /\ v_out = None
    /\ LimiterIdle

(***************************************************************************)
(* main.py: TMDbDataPipeline.process_dataset / _fetch_movie                *)
(***************************************************************************)
rowVars == <<cur_id, req, data, enriched, ret, calls, hits0, cache0, via>>

\* process_dataset, up to the loop: stats['total'] = len(df_input); results = []
Start ==
    /\ pc = "start"
    /\ stats' = [stats EXCEPT !.total = Len(rows)]
    /\ results' = <<>>
    /\ pc' = "loop"
    /\ UNCHANGED <<inputVars, cacheVars, cache_file, idx, checkpoint_file, output_file,
                   rowVars, outcome, pureVars>>

\* The loop takes the next row; _fetch_movie chooses the path:
\* `if tmdb_id and self.validator.is_valid_tmdb_id(tmdb_id)`
FetchMovie ==
    /\ pc = "loop"
    /\ idx < Len(rows)
    /\ LET row == rows[idx + 1] IN
       IF Truthy(row.tmdb_id) /\ is_valid_tmdb_id(row.tmdb_id)
       THEN /\ cur_id' = PyInt(PyIntOf(row.tmdb_id).v)
            /\ pc' = "by_id"
       ELSE /\ cur_id' = None
            /\ pc' = "by_title"
    /\ hits0' = hits
    /\ cache0' = cache
    /\ UNCHANGED <<inputVars, cacheVars, cache_file, idx, results, stats, checkpoint_file,
                   output_file, req, data, enriched, ret, calls, via, outcome, pureVars>>

(***************************************************************************)
(* movie_fetcher.py: MovieFetcher                                          *)
(***************************************************************************)
\* A call of _make_request: the operation, the retries the adapter has made, and
\* (once it returned) the status of the last attempt
NewReq(op) == [op |-> op, retries |-> 0, last |-> 0]

\* fetch_by_title up to the search call.  `if self.cache:` is the truth value of
\* the CacheManager; _make_title_key calls title.lower(), which a title that is
\* not a str does not have.
FetchByTitle ==
    /\ pc = "by_title"
    /\ LET row == rows[idx + 1]
           lookup == CacheTruthy(cache)
       IN IF lookup /\ row.title.t /= "str"
          THEN /\ pc' = "raised"
               /\ UNCHANGED <<hits, misses, req, calls, ret, via>>
          ELSE LET hit == lookup /\ make_title_key(row.title, row.year) \in DOMAIN cache
                   cached == cache[make_title_key(row.title, row.year)]
               IN /\ hits' = IF hit THEN hits + 1 ELSE hits
                  /\ misses' = IF lookup /\ ~hit THEN misses + 1 ELSE misses
                  /\ IF hit /\ DictTruthy(cached)
                     THEN /\ ret' = cached
                          /\ via' = "title_hit"
                          /\ pc' = "returned"
                          /\ UNCHANGED <<req, calls>>
                     ELSE /\ req' = NewReq("search")
                          /\ calls' = [calls EXCEPT !.search = @ + 1]
                          /\ pc' = "http"
                          /\ UNCHANGED <<ret, via>>
    /\ UNCHANGED <<inputVars, cache, clock, cache_file, idx, results, stats, checkpoint_file,
                   output_file, cur_id, data, enriched, hits0, cache0, outcome, pureVars>>

\* search_movie after _make_request, and fetch_by_title after search_movie
SearchReturn ==
    /\ pc = "search_ret"
    /\ LET found == /\ DictTruthy(data)
                    /\ Has(data, "results")
                    /\ Len(data["results"].v) /= 0
           tmdb_id == Get(first_result(data["results"].v), "id", None)
       IN IF found /\ Truthy(tmdb_id)
          THEN /\ cur_id' = tmdb_id
               /\ pc' = "by_id"
               /\ UNCHANGED <<ret, via>>
          ELSE /\ ret' = None
               /\ via' = "absent"
               /\ pc' = "returned"
               /\ UNCHANGED cur_id
    /\ data' = None
    /\ req' = NoReq
    /\ UNCHANGED <<inputVars, cacheVars, cache_file, idx, results, stats, checkpoint_file,
                   output_file, enriched, calls, hits0, cache0, outcome, pureVars>>

\* A variant of FetchById that never looks in the cache
FetchById_Refetch ==
    /\ pc = "by_id"
    /\ req' = NewReq("details")
    /\ calls' = [calls EXCEPT !.details = @ + 1]
    /\ pc' = "http"
    /\ UNCHANGED <<inputVars, cacheVars, cache_file, idx, results, stats, checkpoint_file,
                   output_file, cur_id, data, enriched, ret, via, hits0, cache0, outcome,
                   pureVars>>

\* fetch_by_id up to the details call
FetchById ==
    /\ pc = "by_id"
    /\ LET lookup == CacheTruthy(cache)
           hit == lookup /\ make_id_key(cur_id) \in DOMAIN cache
           cached == cache[make_id_key(cur_id)]
       IN /\ hits' = IF hit THEN hits + 1 ELSE hits
          /\ misses' = IF lookup /\ ~hit THEN misses + 1 ELSE misses
          /\ IF hit /\ DictTruthy(cached)
             THEN /\ ret' = cached
                  /\ via' = "id_hit"
                  /\ pc' = "returned"
                  /\ UNCHANGED <<req, calls>>
             ELSE /\ req' = NewReq("details")
                  /\ calls' = [calls EXCEPT !.details = @ + 1]
                  /\ pc' = "http"
                  /\ UNCHANGED <<ret, via>>
    /\ UNCHANGED <<inputVars, cache, clock, cache_file, idx, results, stats, checkpoint_file,
                   output_file, cur_id, data, enriched, hits0, cache0, outcome, pureVars>>

\* Where _enrich_movie_data goes after the basic fields / after the credits
AfterBasic(e) ==
    IF enable_credits /\ Truthy(Get(e, "tmdb_id", None)) THEN "credits"
    ELSE IF enable_keywords /\ Truthy(Get(e, "tmdb_id", None)) THEN "keywords"
    ELSE "validate"

AfterCredits(e) ==
    IF enable_keywords /\ Truthy(Get(e, "tmdb_id", None)) THEN "keywords" ELSE "validate"

\* fetch_by_id after get_movie_details: absent, or the three extractions and the
\* first extension call
DetailsReturn ==
    /\ pc = "details_ret"
    /\ IF ~DictTruthy(data)
       THEN /\ ret' = None
            /\ via' = "absent"
            /\ pc' = "returned"
            /\ req' = NoReq
            /\ UNCHANGED <<enriched, calls>>
       ELSE IF ImportantRaises(data)
       THEN /\ pc' = "raised"
            /\ req' = NoReq
            /\ UNCHANGED <<enriched, calls, ret, via>>
       ELSE \E e \in {enrich_basic(data)} :
               LET next == AfterBasic(e)
               IN /\ enriched' = e
                  /\ IF next = "validate"
                     THEN /\ pc' = "validate"
                          /\ req' = NoReq
                          /\ UNCHANGED calls
                     ELSE /\ pc' = "http"
                          /\ req' = NewReq(next)
                          /\ calls' = [calls EXCEPT ![next] = @ + 1]
                  /\ UNCHANGED <<ret, via>>
    /\ data' = None
    /\ UNCHANGED <<inputVars, cacheVars, cache_file, idx, results, stats, checkpoint_file,
                   output_file, cur_id, hits0, cache0, outcome, pureVars>>

\* A variant of CreditsReturn that gives up the record when the credits call
\* returned nothing
CreditsReturn_AbsentOnEmpty ==
    /\ pc = "credits_ret"
    /\ IF ~DictTruthy(data)
       THEN /\ ret' = None
            /\ via' = "absent"
            /\ pc' = "returned"
            /\ req' = NoReq
            /\ enriched' = EmptyDict
            /\ UNCHANGED calls
       ELSE /\ enriched' = Update(enriched, extract_credits(data))
            /\ IF AfterCredits(enriched) = "validate"
               THEN /\ pc' = "validate"
                    /\ req' = NoReq
                    /\ UNCHANGED calls
               ELSE /\ pc' = "http"
                    /\ req' = NewReq("keywords")
                    /\ calls' = [calls EXCEPT !.keywords = @ + 1]
            /\ UNCHANGED <<ret, via>>
    /\ data' = None
    /\ UNCHANGED <<inputVars, cacheVars, cache_file, idx, results, stats, checkpoint_file,
                   output_file, cur_id, hits0, cache0, outcome, pureVars>>

\* _extract_credits after get_movie_credits, then the keywords call if enabled
CreditsReturn ==
    /\ pc = "credits_ret"
    /\ enriched' = Update(enriched, extract_credits(data))
    /\ IF AfterCredits(enriched) = "validate"
       THEN /\ pc' = "validate"
            /\ req' = NoReq
            /\ UNCHANGED calls
       ELSE /\ pc' = "http"
            /\ req' = NewReq("keywords")
            /\ calls' = [calls EXCEPT !.keywords = @ + 1]
    /\ data' = None
    /\ UNCHANGED <<inputVars, cacheVars, cache_file, idx, results, stats, checkpoint_file,
                   output_file, cur_id, ret, hits0, cache0, via, outcome, pureVars>>

\* _extract_keywords after get_movie_keywords
KeywordsReturn ==
    /\ pc = "keywords_ret"
    /\ enriched' = Update(enriched, extract_keywords(data))
    /\ pc' = "validate"
    /\ data' = None
    /\ req' = NoReq
    /\ UNCHANGED <<inputVars, cacheVars, cache_file, idx, results, stats, checkpoint_file,
                   output_file, cur_id, ret, calls, hits0, cache0, via, outcome, pureVars>>

\* A variant of Validate that lets every record through to the store
Validate_NoGate ==
    /\ pc = "validate"
    /\ pc' = "store"
    /\ UNCHANGED <<inputVars, cacheVars, cache_file, idx, results, stats, checkpoint_file,
                   output_file, cur_id, req, data, enriched, ret, calls, hits0, cache0, via,
                   outcome, pureVars>>

\* A variant of Validate that writes the cache before it validates
Validate_StoreFirst ==
    /\ pc = "validate"
    /\ cache' = IF CacheTruthy(cache) THEN set_movie(cache, enriched, clock) ELSE cache
    /\ LET r == validate_movie(enriched) IN
       IF r.raised
       THEN /\ pc' = "raised"
            /\ enriched' = EmptyDict
            /\ UNCHANGED <<ret, via>>
       ELSE IF ~r.ok
       THEN /\ ret' = None
            /\ via' = "rejected"
            /\ pc' = "returned"
            /\ enriched' = EmptyDict
       ELSE /\ pc' = "store"
            /\ UNCHANGED <<ret, via, enriched>>
    /\ UNCHANGED <<inputVars, hits, misses, clock, cache_file, idx, results, stats,
                   checkpoint_file, output_file, cur_id, req, data, calls, hits0, cache0,
                   outcome, pureVars>>

\* fetch_by_id: validate_movie(enriched)
Validate ==
    /\ pc = "validate"
    /\ LET r == validate_movie(enriched) IN
       IF r.raised
       THEN /\ pc' = "raised"
            /\ enriched' = EmptyDict
            /\ UNCHANGED <<ret, via>>
       ELSE IF ~r.ok
       THEN /\ ret' = None
            /\ via' = "rejected"
            /\ pc' = "returned"
            /\ enriched' = EmptyDict
       ELSE /\ pc' = "store"
            /\ UNCHANGED <<ret, via, enriched>>
    /\ UNCHANGED <<inputVars, cacheVars, cache_file, idx, results, stats, checkpoint_file,
                   output_file, cur_id, req, data, calls, hits0, cache0, outcome, pureVars>>

\* fetch_by_id: `if self.cache: self.cache.set_movie(enriched)`; return enriched.
\* set_movie writes fetched_at into the dict that is returned.
Store ==
    /\ pc = "store"
    /\ IF CacheTruthy(cache)
       THEN /\ cache' = set_movie(cache, enriched, clock)
            /\ clock' = clock + Cardinality({f \in {"tmdb_id", "title"} : Has(enriched, f)})
            /\ ret' = set_movie_value(enriched, clock)
       ELSE /\ ret' = enriched
            /\ UNCHANGED <<cache, clock>>
    /\ via' = "api"
    /\ pc' = "returned"
    /\ enriched' = EmptyDict
    /\ UNCHANGED <<inputVars, hits, misses, cache_file, idx, results, stats, checkpoint_file,
                   output_file, cur_id, req, data, calls, hits0, cache0, outcome, pureVars>>

(***************************************************************************)
(* tmdb_client.py: TMDbClient._make_request                                *)
(***************************************************************************)
\* The status an attempt met (-1: no status, a network failure)
Code(o) == IF o.kind = "status" THEN o.code ELSE 0 - 1

\* One attempt inside session.get that the adapter retries
SessionRetry ==
    /\ pc = "http"
    /\ \E o \in Outcomes :
          /\ RetriedByAdapter(o, req.retries)
          /\ req' = [req EXCEPT !.retries = @ + 1]
    /\ UNCHANGED <<inputVars, cacheVars, cache_file, pc, idx, results, stats, checkpoint_file,
                   output_file, cur_id, data, enriched, ret, calls, hits0, cache0, via, outcome,
                   pureVars>>

\* session.get ends and _make_request classifies what it got; the public
\* method (search_movie, get_movie_details, ...) hands the data on.
MakeRequestReturn ==
    /\ pc = "http"
    /\ \E o \in Outcomes :
          /\ ~RetriedByAdapter(o, req.retries)
          /\ \E body \in (IF Code(o) = 200 THEN Bodies(req.op, cur_id) ELSE {None}) :
                LET r == make_request(session_get(o), body) IN
                IF r.kind = "again"
                THEN /\ req' = [req EXCEPT !.retries = 0]
                     /\ UNCHANGED <<pc, data>>
                ELSE /\ req' = [req EXCEPT !.retries = 0, !.last = Code(o)]
                     /\ data' = r.value
                     /\ pc' = req.op \o "_ret"
    /\ UNCHANGED <<inputVars, cacheVars, cache_file, idx, results, stats, checkpoint_file,
                   output_file, cur_id, enriched, ret, calls, hits0, cache0, via, outcome, pureVars>>

(***************************************************************************)
(* main.py: the end of _fetch_movie and of the loop body                   *)
(***************************************************************************)
\* A variant of CatchException without the except clause: the exception leaves
\* _fetch_movie and process_dataset
CatchException_Propagate ==
    /\ pc = "raised"
    /\ pc' = "aborted"
    /\ UNCHANGED <<inputVars, cacheVars, cache_file, idx, results, stats, checkpoint_file,
                   output_file, rowVars, outcome, pureVars>>

\* _fetch_movie: `except Exception` logs and returns None
CatchException ==
    /\ pc = "raised"
    /\ ret' = None
    /\ via' = "exception"
    /\ pc' = "returned"
    /\ UNCHANGED <<inputVars, cacheVars, cache_file, idx, results, stats, checkpoint_file,
                   output_file, cur_id, req, data, enriched, calls, hits0, cache0, outcome, pureVars>>

\* A variant of FetchMovieReturn that counts a row the validator rejected in
\* stats['invalid'] and not in stats['failed']
FetchMovieReturn_CountsInvalid ==
    /\ pc = "returned"
    /\ LET found == DictTruthy(ret)
           results1 == IF found THEN Append(results, ret) ELSE results
       IN /\ results' = results1
          /\ stats' = IF found THEN [stats EXCEPT !.success = @ + 1]
                      ELSE IF via = "rejected" THEN [stats EXCEPT !.invalid = @ + 1]
                      ELSE [stats EXCEPT !.failed = @ + 1]
          /\ outcome' = Append(outcome, IF found THEN "success" ELSE "failed")
          /\ checkpoint_file' = IF Len(results1) % CHECKPOINT_INTERVAL = 0
                                THEN CsvFile(results1) ELSE checkpoint_file
    /\ idx' = idx + 1
    /\ pc' = "loop"
    /\ cur_id' = None
    /\ req' = NoReq
    /\ data' = None
    /\ enriched' = EmptyDict
    /\ ret' = None
    /\ calls' = NoCalls
    /\ hits0' = 0
    /\ cache0' = EmptyDict
    /\ via' = "none"
    /\ UNCHANGED <<inputVars, cacheVars, cache_file, output_file, pureVars>>

\* The loop body after _fetch_movie: count the row, append, checkpoint
\* (`save_checkpoints and len(results) % CHECKPOINT_INTERVAL == 0`)
FetchMovieReturn ==
    /\ pc = "returned"
    /\ LET found == DictTruthy(ret)
           results1 == IF found THEN Append(results, ret) ELSE results
       IN /\ results' = results1
          /\ stats' = IF found THEN [stats EXCEPT !.success = @ + 1]
                      ELSE [stats EXCEPT !.failed = @ + 1]
          /\ outcome' = Append(outcome, IF found THEN "success" ELSE "failed")
          /\ checkpoint_file' = IF Len(results1) % CHECKPOINT_INTERVAL = 0
                                THEN CsvFile(results1) ELSE checkpoint_file
    /\ idx' = idx + 1
    /\ pc' = "loop"
    /\ cur_id' = None
    /\ req' = NoReq
    /\ data' = None
    /\ enriched' = EmptyDict
    /\ ret' = None
    /\ calls' = NoCalls
    /\ hits0' = 0
    /\ cache0' = EmptyDict
    /\ via' = "none"
    /\ UNCHANGED <<inputVars, cacheVars, cache_file, output_file, pureVars>>

\* process_dataset after the loop: _save_results, save_cache, from_cache
Finish ==
    /\ pc = "loop"
    /\ idx = Len(rows)
    /\ output_file' = CsvFile(results)
    /\ cache_file' = IF CacheTruthy(cache) THEN [exists |-> TRUE, doc |-> cache] ELSE cache_file
    /\ stats' = IF CacheTruthy(cache) THEN [stats EXCEPT !.from_cache = hits] ELSE stats
    /\ pc' = "done"
    /\ UNCHANGED <<inputVars, cacheVars, idx, results, checkpoint_file, rowVars, outcome,
                   pureVars>>

Next ==
    \/ Start
    \/ FetchMovie
    \/ FetchByTitle
    \/ SearchReturn
    \/ FetchById
    \/ DetailsReturn
    \/ CreditsReturn
    \/ KeywordsReturn
    \/ Validate
    \/ Store
    \/ SessionRetry
    \/ MakeRequestReturn
    \/ CatchException
    \/ FetchMovieReturn
    \/ Finish

Spec == Init /\ [][Next]_vars

\* The batch loop is one thread that keeps running: every step is taken in turn.
FairSpec == Spec /\ WF_vars(Next)

(***************************************************************************)
(* main.py: process_dataset called again on the same pipeline              *)
(***************************************************************************)
MaxRuns == 2       \* process_dataset calls on one pipeline

\* A further process_dataset call on the pipeline, with the same input file, up
\* to the loop: stats['total'] = len(df_input); results = [].  self.stats is
\* created in __init__ only, and the cache and its counters stay as they are.
ProcessAgain ==
    /\ pc = "done"
    /\ stats.success + stats.failed < MaxRuns * Len(rows)
    /\ stats' = [stats EXCEPT !.total = Len(rows)]
    /\ results' = <<>>
    /\ idx' = 0
    /\ outcome' = <<>>
    /\ pc' = "loop"
    /\ v_in' = PyInt(hits)      \* observed: cache.hits when this call began
    /\ UNCHANGED <<inputVars, cacheVars, cache_file, checkpoint_file, output_file,
                   rowVars, v_out, unitVars>>

\* The pipeline of the repeated runs: credits and keywords switched off
\* (enable_credits = enable_keywords = False)
InitRuns ==
    /\ Init
    /\ ~enable_credits
    /\ ~enable_keywords

NextRuns ==
    \/ Start
    \/ FetchMovie
    \/ FetchByTitle
    \/ SearchReturn
    \/ FetchById
    \/ DetailsReturn
    \/ Validate
    \/ Store
    \/ SessionRetry
    \/ MakeRequestReturn
    \/ CatchException
    \/ FetchMovieReturn
    \/ Finish
    \/ ProcessAgain

SpecRuns == InitRuns /\ [][NextRuns]_vars

(***************************************************************************)
(* validators.py on its own: validate_movie applied to one record          *)
(***************************************************************************)
\* A field of a record under validation: left out, None, or a value
Absent == [t |-> "absent"]

MovieRecord(o) == [f \in {g \in DOMAIN o : o[g] /= Absent} |-> o[f]]

Records ==
    {MovieRecord(o) :
        o \in [tmdb_id : {Absent, None, PyInt(1)},
               title : {Absent, None, PyStr(<<"A", "b">>)},
               overview : {Absent, None, PyStr(<<>>),
                           PyStr(Rep("x", MIN_OVERVIEW_LENGTH - 1)),
                           PyStr(Rep("x", MIN_OVERVIEW_LENGTH)),
                           PyStr(Rep(" ", MIN_OVERVIEW_LENGTH))},
               release_date : {Absent, None, PyStr(DateOK)},
               year : {Absent, None, PyInt(MIN_YEAR - 1), PyInt(MIN_YEAR), PyInt(MAX_YEAR),
                       PyInt(MAX_YEAR + 1), PyStr(<<"2", "0", "1", "0">>),
                       PyStr(<<"a", "b", "c">>)},
               genres : {Absent, None, PyList(<<>>), PyList(<<PyStr(<<"G">>)>>)}]}

pipelineVars == <<rows, enable_credits, enable_keywords, cache, hits, misses, cache_file,
                  clock, pc, idx, results, stats, checkpoint_file, output_file, cur_id, req,
                  data, enriched, ret, calls, hits0, cache0, via, outcome, snapshot0>>

InitValidate ==
    /\ v_in \in Records
    /\ v_out = None
    /\ rows = [i \in 1..NumRows |-> Row(PyStr(<<"a", "b">>), PyInt(2010), NaN)]
    /\ enable_credits = TRUE
    /\ enable_keywords = TRUE
    /\ cache_file = [exists |-> FALSE, doc |-> EmptyDict]
    /\ snapshot0 = cache_file
    /\ cache = EmptyDict
    /\ hits = 0
    /\ misses = 0
    /\ clock = 1
    /\ pc = "start"
    /\ idx = 0
    /\ results = <<>>
    /\ stats = [total |-> 0, success |-> 0, failed |-> 0, invalid |-> 0, from_cache |-> 0]
    /\ checkpoint_file = NoFile
    /\ output_file = NoFile
    /\ cur_id = None
    /\ req = NoReq
    /\ data = None
    /\ enriched = EmptyDict
    /\ ret = None
    /\ calls = NoCalls
    /\ hits0 = 0
    /\ cache0 = EmptyDict
    /\ via = "none"
    /\ outcome = <<>>
    /\ LimiterIdle

\* MovieValidator.validate_movie(v_in)
ValidateCall ==
    /\ v_out = None
    /\ v_out' = validate_movie(v_in)
    /\ UNCHANGED <<v_in, pipelineVars, unitVars>>

SpecValidate == InitValidate /\ [][ValidateCall]_vars

\* The pipeline before it has started, with an empty cache and no snapshot
PipelineIdle ==
    /\ rows = [i \in 1..NumRows |-> Row(PyStr(<<"a", "b">>), PyInt(2010), NaN)]
    /\ enable_credits = TRUE
    /\ enable_keywords = TRUE
    /\ cache_file = [exists |-> FALSE, doc |-> EmptyDict]
    /\ snapshot0 = cache_file
    /\ cache = EmptyDict
    /\ hits = 0
    /\ misses = 0
    /\ clock = 1
    /\ pc = "start"
    /\ idx = 0
    /\ results = <<>>
    /\ stats = [total |-> 0, success |-> 0, failed |-> 0, invalid |-> 0, from_cache |-> 0]
    /\ checkpoint_file = NoFile
    /\ output_file = NoFile
    /\ cur_id = None
    /\ req = NoReq
    /\ data = None
    /\ enriched = EmptyDict
    /\ ret = None
    /\ calls = NoCalls
    /\ hits0 = 0
    /\ cache0 = EmptyDict
    /\ via = "none"
    /\ outcome = <<>>

(***************************************************************************)
(* main.py: the loop of process_dataset over a long input, with the result *)
(* of each _fetch_movie call given                                         *)
(***************************************************************************)
MaxBatch == 201    \* input rows of the long run

\* The record _fetch_movie returns for input row i
BatchRecord(i) == [tmdb_id |-> PyInt(i)]

\* A long run: v_in holds the number of rows and the rows whose fetch returns
\* None; v_out collects the row lists of the checkpoints written (observed)
InitBatch ==
    /\ v_in \in [n : {MaxBatch}, fails : {{}} \cup {{i} : i \in 1..MaxBatch}]
    /\ v_out = <<>>
    /\ PipelineIdle
    /\ LimiterIdle

\* process_dataset up to the loop
StartBatch ==
    /\ pc = "start"
    /\ stats' = [stats EXCEPT !.total = v_in.n]
    /\ results' = <<>>
    /\ pc' = "loop"
    /\ UNCHANGED <<inputVars, cacheVars, cache_file, idx, checkpoint_file, output_file,
                   rowVars, outcome, pureVars>>

\* One pass of the loop body: append or count the failure, then
\* `if save_checkpoints and len(results) % config.CHECKPOINT_INTERVAL == 0:
\*      self._save_checkpoint(results, checkpoint_file)`
BatchRow ==
    /\ pc = "loop"
    /\ idx < v_in.n
    /\ LET found == (idx + 1) \notin v_in.fails
           results1 == IF found THEN Append(results, BatchRecord(idx + 1)) ELSE results
           saves == Len(results1) % CHECKPOINT_INTERVAL = 0
       IN /\ results' = results1
          /\ stats' = IF found THEN [stats EXCEPT !.success = @ + 1]
                      ELSE [stats EXCEPT !.failed = @ + 1]
          /\ checkpoint_file' = IF saves THEN CsvFile(results1) ELSE checkpoint_file
          /\ v_out' = IF saves THEN Append(v_out, results1) ELSE v_out
    /\ idx' = idx + 1
    /\ UNCHANGED <<inputVars, cacheVars, cache_file, pc, output_file, rowVars, outcome,
                   v_in, unitVars>>

\* A variant of FinishBatch that writes only the rows collected since the last
\* checkpoint
FinishBatch_OnlyNew ==
    /\ pc = "loop"
    /\ idx = v_in.n
    /\ output_file' = CsvFile(SubSeq(results, Len(checkpoint_file.rows) + 1, Len(results)))
    /\ pc' = "done"
    /\ UNCHANGED <<inputVars, cacheVars, cache_file, idx, results, stats, checkpoint_file,
                   rowVars, outcome, pureVars>>

\* process_dataset after the loop: _save_results(results, output_path)
FinishBatch ==
    /\ pc = "loop"
    /\ idx = v_in.n
    /\ output_file' = CsvFile(results)
    /\ pc' = "done"
    /\ UNCHANGED <<inputVars, cacheVars, cache_file, idx, results, stats, checkpoint_file,
                   rowVars, outcome, pureVars>>

NextBatch ==
    \/ StartBatch
    \/ BatchRow
    \/ FinishBatch

SpecCheckpoint == InitBatch /\ [][NextBatch]_vars

(***************************************************************************)
(* tmdb_client.py on its own: _rate_limit under one or two calling threads *)
(***************************************************************************)
\* The last instant of the clock, and the most outbound calls, that are followed
MaxTime == 6
MaxCalls == 3

\* An outbound call: released by _rate_limit, or re-sent by the session's adapter
\* after the status it met
Released(t) == [at |-> now, by |-> "rate_limit", thread |-> t, after |-> 0]
Resent(t, code) == [at |-> now, by |-> "adapter", thread |-> t, after |-> code]

InitLimiter ==
    /\ PipelineIdle
    /\ v_in = None
    /\ v_out = None
    /\ now = RATE_LIMIT_DELAY
    /\ last_request_time = 0
    /\ callers \in {{1}, Threads}
    /\ thr = [t \in Threads |-> ThreadIdle]
    /\ out = <<>>
    /\ ManagerIdle

\* time passes
Tick ==
    /\ now < MaxTime
    /\ now' = now + 1
    /\ UNCHANGED <<pipelineVars, v_in, v_out, last_request_time, callers, thr, out,
                   managerVars>>

\* _make_request calls _rate_limit: current_time = time.time()
rate_limit_enter(t) ==
    /\ t \in callers
    /\ thr[t].pc = "idle"
    /\ Len(out) < MaxCalls
    /\ thr' = [thr EXCEPT ![t] = [pc |-> "entered", current_time |-> now, wake |-> now,
                                  retries |-> 0]]
    /\ UNCHANGED <<pipelineVars, v_in, v_out, now, last_request_time, callers, out,
                   managerVars>>

\* _rate_limit: time_since_last_request = current_time - self.last_request_time;
\* if it is less than RATE_LIMIT_DELAY, time.sleep for the rest of the delay
rate_limit_check(t) ==
    /\ thr[t].pc = "entered"
    /\ LET time_since_last_request == thr[t].current_time - last_request_time
           sleep_time == RATE_LIMIT_DELAY - time_since_last_request
       IN  thr' = [thr EXCEPT ![t].pc = "checked",
                              ![t].wake = IF time_since_last_request < RATE_LIMIT_DELAY
                                          THEN now + sleep_time
                                          ELSE now]
    /\ UNCHANGED <<pipelineVars, v_in, v_out, now, last_request_time, callers, out,
                   managerVars>>

\* _rate_limit, once any sleep is over: self.last_request_time = time.time(), and
\* the call goes out
rate_limit_release(t) ==
    /\ thr[t].pc = "checked"
    /\ now >= thr[t].wake
    /\ last_request_time' = now
    /\ out' = Append(out, Released(t))
    /\ thr' = [thr EXCEPT ![t] = [ThreadIdle EXCEPT !.pc = "get"]]
    /\ UNCHANGED <<pipelineVars, v_in, v_out, now, callers, managerVars>>

\* session.get: the adapter's Retry sends the request again after a status of its
\* status_forcelist, without passing through _rate_limit
session_resend(t) ==
    /\ thr[t].pc = "get"
    /\ thr[t].retries < MAX_RETRIES
    /\ Len(out) < MaxCalls
    /\ \E code \in RETRYABLE_STATUS_CODES :
           out' = Append(out, Resent(t, code))
    /\ thr' = [thr EXCEPT ![t].retries = @ + 1]
    /\ UNCHANGED <<pipelineVars, v_in, v_out, now, last_request_time, callers,
                   managerVars>>

\* _make_request returns
make_request_return(t) ==
    /\ thr[t].pc = "get"
    /\ thr' = [thr EXCEPT ![t] = ThreadIdle]
    /\ UNCHANGED <<pipelineVars, v_in, v_out, now, last_request_time, callers, out,
                   managerVars>>

NextLimiter ==
    \/ Tick
    \/ \E t \in Threads : rate_limit_enter(t)
    \/ \E t \in Threads : rate_limit_check(t)
    \/ \E t \in Threads : rate_limit_release(t)
    \/ \E t \in Threads : session_resend(t)
    \/ \E t \in Threads : make_request_return(t)

SpecLimiter == InitLimiter /\ [][NextLimiter]_vars

(***************************************************************************)
(* cache_manager.py on its own: the CacheManager called by one or two      *)
(* threads                                                                 *)
(***************************************************************************)
\* The most calls that are followed
MaxOps == 4

\* The records given to set and set_movie: two films with one id and two title keys
CacheRecords ==
    {[tmdb_id |-> PyInt(1), title |-> PyStr(<<"A", " ", "b">>), year |-> PyInt(2010)],
     [tmdb_id |-> PyInt(1), title |-> PyStr(<<" ", "a", " ", "B">>)]}
CacheKeys == UNION {set_movie_keys(r) : r \in CacheRecords}

Lookups == {"get", "get_by_id", "get_by_title"}
CacheOps == Lookups \cup {"has", "set", "set_movie", "clear", "save_cache", "get_stats"}

\* The key a call works on: given, or made by _make_id_key / _make_title_key
KeyOf(op, key, value) ==
    CASE op \in {"get", "has", "set"} -> key
      [] op \in {"get_by_id", "set_movie"} -> make_id_key(value["tmdb_id"])
      [] op = "get_by_title" -> make_title_key(value["title"], Get(value, "year", None))
      [] OTHER -> <<>>

managerRest == <<rows, enable_credits, enable_keywords, pc, idx, results, stats,
                 checkpoint_file, output_file, rowVars, outcome, snapshot0, v_in, v_out,
                 limiterVars>>

InitCache ==
    /\ PipelineIdle
    /\ v_in = None
    /\ v_out = None
    /\ now = RATE_LIMIT_DELAY
    /\ last_request_time = 0
    /\ callers \in {{1}, Threads}
    /\ thr = [t \in Threads |-> ThreadIdle]
    /\ out = <<>>
    /\ ManagerIdle

\* What get_stats would return at one instant
Instant(c, h, m) ==
    [size |-> PyInt(Cardinality(DOMAIN c)), hits |-> PyInt(h), misses |-> PyInt(m)]

\* A get_stats call has read the size and not yet the last counter
StatsRunning == \E t \in Threads : cth[t].pc \in {"stats_hits", "stats_misses"}

\* The record of what was observed, with the instant a write leads to added
\* while a get_stats call is reading
Note(s, c, h, m) ==
    IF StatsRunning THEN [s EXCEPT !.instants = @ \cup {Instant(c, h, m)}] ELSE s

\* a thread calls get, get_by_id, get_by_title, has, set, set_movie, clear,
\* save_cache or get_stats (which has no `with self.lock:`).  The dict given to
\* set is a new one or one the caller got from the cache (get returns the
\* stored dict itself).
cache_call(t) ==
    /\ t \in callers
    /\ cth[t].pc = "idle"
    /\ seen.calls < MaxOps
    /\ \E op \in CacheOps, key \in CacheKeys :
        \E value \in CacheRecords \cup
                     (IF op = "set" THEN {cache[k] : k \in DOMAIN cache} ELSE {}) :
           cth' = [cth EXCEPT ![t] =
                      [NoCall EXCEPT !.pc = IF op = "get_stats" THEN "stats_rate" ELSE "acquire",
                                     !.op = op,
                                     !.key = KeyOf(op, key, value),
                                     !.given = IF op \in {"set", "set_movie"}
                                               THEN value ELSE EmptyDict,
                                     !.value = IF op \in {"set", "set_movie"}
                                               THEN value ELSE EmptyDict]]
    /\ seen' = [seen EXCEPT !.calls = @ + 1]
    /\ UNCHANGED <<cache, hits, misses, clock, cache_file, lock, managerRest>>

\* A variant of with_lock that does not wait for the lock
with_lock_NotHeld(t) ==
    /\ cth[t].pc = "acquire"
    /\ lock' = t
    /\ cth' = [cth EXCEPT ![t].pc = "locked"]
    /\ UNCHANGED <<cache, hits, misses, clock, cache_file, seen, managerRest>>

\* `with self.lock:` of get, set, has, clear and save_cache: wait until the lock is
\* free, then hold it
with_lock(t) ==
    /\ cth[t].pc = "acquire"
    /\ lock = 0
    /\ lock' = t
    /\ cth' = [cth EXCEPT ![t].pc = "locked"]
    /\ UNCHANGED <<cache, hits, misses, clock, cache_file, seen, managerRest>>

\* get: `if key in self.cache`, and the reading half of `self.hits += 1` or
\* `self.misses += 1`
get_test(t) ==
    /\ cth[t].pc = "locked"
    /\ cth[t].op \in Lookups
    /\ cth' = [cth EXCEPT ![t].pc = "counting",
                          ![t].found = Has(cache, cth[t].key),
                          ![t].n = IF Has(cache, cth[t].key) THEN hits ELSE misses]
    /\ UNCHANGED <<cache, hits, misses, clock, cache_file, lock, seen, managerRest>>

\* get: the writing half of the increment, then `return self.cache[key]` or
\* `return None`
get_return(t) ==
    /\ cth[t].pc = "counting"
    /\ hits' = IF cth[t].found THEN cth[t].n + 1 ELSE hits
    /\ misses' = IF cth[t].found THEN misses ELSE cth[t].n + 1
    /\ cth' = [cth EXCEPT ![t].pc = "unlock",
                          ![t].result = IF cth[t].found
                                        THEN Get(cache, cth[t].key, None) ELSE None]
    /\ seen' = Note([seen EXCEPT !.lookups = @ + 1,
                                 !.found = IF Has(cache, cth[t].key) THEN @ + 1 ELSE @,
                                 !.absent = IF Has(cache, cth[t].key) THEN @ ELSE @ + 1],
                     cache,
                     IF cth[t].found THEN cth[t].n + 1 ELSE hits,
                     IF cth[t].found THEN misses ELSE cth[t].n + 1)
    /\ UNCHANGED <<cache, clock, cache_file, lock, managerRest>>

\* has: `return key in self.cache`
has_body(t) ==
    /\ cth[t].pc = "locked"
    /\ cth[t].op = "has"
    /\ cth' = [cth EXCEPT ![t].pc = "unlock", ![t].found = Has(cache, cth[t].key)]
    /\ UNCHANGED <<cache, hits, misses, clock, cache_file, lock, seen, managerRest>>

\* A variant of set_body that stores the value without a timestamp
set_body_Unstamped(t) ==
    /\ cth[t].pc = "locked"
    /\ cth[t].op \in {"set", "set_movie"}
    /\ cache' = Put(cache, cth[t].key, cth[t].value)
    /\ cth' = [cth EXCEPT ![t].pc = "unlock"]
    /\ seen' = Note(IF cth[t].op = "set_movie" /\ cth[t].second
                     THEN [seen EXCEPT !.stored = cth[t].given, !.at = clock]
                     ELSE [seen EXCEPT !.stored = EmptyDict, !.at = 0],
                     Put(cache, cth[t].key, cth[t].value), hits, misses)
    /\ clock' = clock + 1
    /\ UNCHANGED <<hits, misses, cache_file, lock, managerRest>>

\* A variant of set_body that keeps the new entry only
set_body_Evicts(t) ==
    /\ cth[t].pc = "locked"
    /\ cth[t].op \in {"set", "set_movie"}
    /\ \E stamped \in {Put(cth[t].value, "fetched_at", PyInt(clock))} :
           /\ cache' = Put(EmptyDict, cth[t].key, stamped)
           /\ cth' = [cth EXCEPT ![t].pc = "unlock", ![t].value = stamped]
    /\ seen' = Note(IF cth[t].op = "set_movie" /\ cth[t].second
                     THEN [seen EXCEPT !.stored = cth[t].given, !.at = clock]
                     ELSE [seen EXCEPT !.stored = EmptyDict, !.at = 0],
                     Put(cache, cth[t].key, cth[t].value), hits, misses)
    /\ clock' = clock + 1
    /\ UNCHANGED <<hits, misses, cache_file, lock, managerRest>>

\* set: value['fetched_at'] = datetime.now().isoformat(); self.cache[key] = value.
\* The timestamp is written into the caller's dict, so it shows under every key
\* that already holds that dict (set_movie's first key, during its second set).
set_body(t) ==
    /\ cth[t].pc = "locked"
    /\ cth[t].op \in {"set", "set_movie"}
    /\ \E stamped \in {Put(cth[t].value, "fetched_at", PyInt(clock))} :
           /\ cache' = [k \in (DOMAIN cache) \cup {cth[t].key} |->
                           IF k = cth[t].key THEN stamped
                           ELSE IF cache[k] = cth[t].value THEN stamped ELSE cache[k]]
           /\ cth' = [cth EXCEPT ![t].pc = "unlock", ![t].value = stamped]
    /\ seen' = Note(IF cth[t].op = "set_movie" /\ cth[t].second
                     THEN [seen EXCEPT !.stored = cth[t].given, !.at = clock]
                     ELSE [seen EXCEPT !.stored = EmptyDict, !.at = 0],
                     Put(cache, cth[t].key, cth[t].value), hits, misses)
    /\ clock' = clock + 1
    /\ UNCHANGED <<hits, misses, cache_file, lock, managerRest>>

\* A variant of clear_body that empties the map and keeps the counters
clear_body_KeepsCounters(t) ==
    /\ cth[t].pc = "locked"
    /\ cth[t].op = "clear"
    /\ cache' = EmptyDict
    /\ cth' = [cth EXCEPT ![t].pc = "unlock"]
    /\ seen' = Note([seen EXCEPT !.lookups = 0, !.found = 0, !.absent = 0,
                                 !.stored = EmptyDict, !.at = 0],
                     EmptyDict, hits, misses)
    /\ UNCHANGED <<hits, misses, clock, cache_file, lock, managerRest>>

\* clear: self.cache = {}; self.hits = 0; self.misses = 0
clear_body(t) ==
    /\ cth[t].pc = "locked"
    /\ cth[t].op = "clear"
    /\ cache' = EmptyDict
    /\ hits' = 0
    /\ misses' = 0
    /\ cth' = [cth EXCEPT ![t].pc = "unlock"]
    /\ seen' = Note([seen EXCEPT !.lookups = 0, !.found = 0, !.absent = 0,
                                 !.stored = EmptyDict, !.at = 0],
                     EmptyDict, 0, 0)
    /\ UNCHANGED <<clock, cache_file, lock, managerRest>>

\* save_cache: json.dump walks self.cache entry by entry; here in two halves, the
\* id keys first
IsIdKey(k) == Len(k) >= 3 /\ SubSeq(k, 1, 3) = <<"i", "d", "_">>

save_cache_dump(t) ==
    /\ cth[t].pc = "locked"
    /\ cth[t].op = "save_cache"
    /\ cth' = [cth EXCEPT ![t].pc = "dumping",
                          ![t].part = [k \in {j \in DOMAIN cache : IsIdKey(j)} |-> cache[k]]]
    /\ UNCHANGED <<cache, hits, misses, clock, cache_file, lock, seen, managerRest>>

save_cache_write(t) ==
    /\ cth[t].pc = "dumping"
    /\ cache_file' =
           [exists |-> TRUE,
            doc |-> Update(cth[t].part,
                           [k \in {j \in DOMAIN cache : ~IsIdKey(j)} |-> cache[k]])]
    /\ cth' = [cth EXCEPT ![t].pc = "unlock"]
    /\ UNCHANGED <<cache, hits, misses, clock, lock, seen, managerRest>>

\* the end of `with self.lock:`; set_movie goes on to its second set, under the
\* title key
unlock(t) ==
    /\ cth[t].pc = "unlock"
    /\ lock' = IF lock = t THEN 0 ELSE lock
    /\ cth' = [cth EXCEPT ![t] =
                  IF cth[t].op = "set_movie" /\ ~cth[t].second
                  THEN [cth[t] EXCEPT !.pc = "acquire", !.second = TRUE,
                                      !.key = KeyOf("get_by_title", <<>>, cth[t].given)]
                  ELSE NoCall]
    /\ seen' = [seen EXCEPT !.between = @ \cup {cache}]
    /\ UNCHANGED <<cache, hits, misses, clock, cache_file, managerRest>>

\* get_stats, first two lines: total_requests = self.hits + self.misses and
\* hit_rate from another read of self.hits (here as the pair hits, total)
stats_rate(t) ==
    /\ cth[t].pc = "stats_rate"
    /\ cth' = [cth EXCEPT ![t].pc = "stats_size",
                          ![t].result = Put(EmptyDict, "hit_rate",
                                            PyList(<<PyInt(hits), PyInt(hits + misses)>>))]
    /\ UNCHANGED <<cache, hits, misses, clock, cache_file, lock, seen, managerRest>>

\* get_stats: 'size': len(self.cache)
stats_size(t) ==
    /\ cth[t].pc = "stats_size"
    /\ cth' = [cth EXCEPT ![t].pc = "stats_hits",
                          ![t].result = Put(@, "size", PyInt(Cardinality(DOMAIN cache)))]
    /\ seen' = [seen EXCEPT !.instants = @ \cup {Instant(cache, hits, misses)}]
    /\ UNCHANGED <<cache, hits, misses, clock, cache_file, lock, managerRest>>

\* get_stats: 'hits': self.hits
stats_hits(t) ==
    /\ cth[t].pc = "stats_hits"
    /\ cth' = [cth EXCEPT ![t].pc = "stats_misses", ![t].result = Put(@, "hits", PyInt(hits))]
    /\ UNCHANGED <<cache, hits, misses, clock, cache_file, lock, seen, managerRest>>

\* get_stats: 'misses': self.misses
stats_misses(t) ==
    /\ cth[t].pc = "stats_misses"
    /\ cth' = [cth EXCEPT ![t].pc = "stats_ret", ![t].result = Put(@, "misses", PyInt(misses))]
    /\ UNCHANGED <<cache, hits, misses, clock, cache_file, lock, seen, managerRest>>

\* get_stats returns the dict
stats_return(t) ==
    /\ cth[t].pc = "stats_ret"
    /\ cth' = [cth EXCEPT ![t] = NoCall]
    /\ seen' = [seen EXCEPT !.instants =
                    IF \E u \in Threads \ {t} : cth[u].op = "get_stats" THEN @ ELSE {}]
    /\ UNCHANGED <<cache, hits, misses, clock, cache_file, lock, managerRest>>

NextCache ==
    \/ \E t \in Threads : cache_call(t)
    \/ \E t \in Threads : with_lock(t)
    \/ \E t \in Threads : get_test(t)
    \/ \E t \in Threads : get_return(t)
    \/ \E t \in Threads : has_body(t)
    \/ \E t \in Threads : set_body(t)
    \/ \E t \in Threads : clear_body(t)
    \/ \E t \in Threads : save_cache_dump(t)
    \/ \E t \in Threads : save_cache_write(t)
    \/ \E t \in Threads : unlock(t)
    \/ \E t \in Threads : stats_rate(t)
    \/ \E t \in Threads : stats_size(t)
    \/ \E t \in Threads : stats_hits(t)
    \/ \E t \in Threads : stats_misses(t)
    \/ \E t \in Threads : stats_return(t)

SpecCache == InitCache /\ [][NextCache]_vars

(***************************************************************************)
(* cache_manager.py on its own: _make_title_key applied to two titles      *)
(***************************************************************************)
\* The longest title
MaxTitleLen == 4

Titles == UNION {[1..n -> {"A", "a", " "}] : n \in 0..MaxTitleLen}

InitTitleKey ==
    /\ v_in \in [a : {PyStr(s) : s \in Titles}, b : {PyStr(s) : s \in Titles},
                  year : {None, PyInt(0), PyInt(2010)}]
    /\ v_out = None
    /\ PipelineIdle
    /\ LimiterIdle

\* CacheManager._make_title_key(v_in.a, v_in.year) and
\* CacheManager._make_title_key(v_in.b, v_in.year)
MakeTitleKeyCall ==
    /\ v_out = None
    /\ v_out' = [a |-> make_title_key(v_in.a, v_in.year),
                 b |-> make_title_key(v_in.b, v_in.year)]
    /\ UNCHANGED <<v_in, pipelineVars, unitVars>>

SpecTitleKey == InitTitleKey /\ [][MakeTitleKeyCall]_vars

(***************************************************************************)
(* cache_manager.py on its own: __init__ and _load_cache over what the     *)
(* snapshot file may hold, then a lookup or a store                        *)
(***************************************************************************)
PyDict(d) == [t |-> "dict", v |-> d]

\* The snapshot file: missing; not decodable as JSON; or a JSON document, which
\* json.load turns into None, a number, a list, a str or a dict
SnapshotContents ==
    {[exists |-> FALSE, decodes |-> FALSE, value |-> None],
     [exists |-> TRUE, decodes |-> FALSE, value |-> None]} \cup
    {[exists |-> TRUE, decodes |-> TRUE, value |-> x] :
        x \in {None, PyInt(0), PyInt(7), PyList(<<>>), PyStr(<<>>),
               PyDict(EmptyDict), PyDict(SnapshotGood), PyDict(SnapshotStale)} \cup
              {PyList(<<PyStr(k)>>) : k \in CacheKeys} \cup
              {PyStr(k) : k \in CacheKeys}}

\* _load_cache: self.cache = json.load(f), then len(self.cache) for the log line,
\* both inside the try; JSONDecodeError and any other Exception give {}
load_snapshot(content) ==
    IF ~content.exists THEN PyDict(EmptyDict)
    ELSE IF ~content.decodes THEN PyDict(EmptyDict)
    ELSE IF content.value.t \in {"none", "int"} THEN PyDict(EmptyDict)
    ELSE content.value

\* `key in self.cache`, for the types len() accepts
PyIn(key, c) ==
    CASE c.t = "dict" -> key \in DOMAIN c.v
      [] c.t = "list" -> \E i \in 1..Len(c.v) : c.v[i].t = "str" /\ c.v[i].v = key
      [] OTHER -> \E i \in 0..(Len(c.v) - Len(key)) : SubSeq(c.v, i + 1, i + Len(key)) = key

InitLoad ==
    /\ v_in \in SnapshotContents
    /\ v_out = None
    /\ PipelineIdle
    /\ LimiterIdle

\* json.dump of a value: the JSON text, as the tree of its tokens
JsonOf(x) ==
    CASE x.t = "none" -> [j |-> "null"]
      [] x.t = "int" -> [j |-> "number", v |-> x.v]
      [] x.t = "str" -> [j |-> "string", v |-> x.v]
      [] x.t = "list" -> [j |-> "array", v |-> [i \in 1..Len(x.v) |-> x.v[i]]]
      [] OTHER -> [j |-> "NaN"]

\* json.load of such a text
FromJson(d) ==
    CASE d.j = "null" -> None
      [] d.j = "number" -> PyInt(d.v)
      [] d.j = "string" -> PyStr(d.v)
      [] d.j = "array" -> PyList(d.v)
      [] OTHER -> NaN

\* json.dump(self.cache, f): an object of objects when the cache is a dict of
\* records, the array or string itself when a bad snapshot made it a list or str
json_dump(c) ==
    IF c.t = "dict"
    THEN [j |-> "object",
          v |-> [k \in DOMAIN c.v |-> [f \in DOMAIN c.v[k] |-> JsonOf(c.v[k][f])]]]
    ELSE JsonOf(c)

json_load(d) ==
    IF d.j = "object"
    THEN PyDict([k \in DOMAIN d.v |-> [f \in DOMAIN d.v[k] |-> FromJson(d.v[k][f])]])
    ELSE FromJson(d)

\* The most instances opened on one directory
MaxOpens == 2

\* CacheManager.__init__: cache = {}, hits = misses = 0, then _load_cache()
Construct ==
    /\ v_out = None
    /\ v_out' = [cache |-> load_snapshot(v_in), hits |-> 0, misses |-> 0, calls |-> 0,
                 raised |-> FALSE, opens |-> 1, saved |-> None]
    /\ UNCHANGED <<v_in, pipelineVars, unitVars>>

\* A variant of SaveAfterLoad that adds the entries to those of the old snapshot
SaveAfterLoad_Merge ==
    /\ v_out /= None
    /\ ~v_out.raised
    /\ v_out.calls < MaxCalls
    /\ v_in' = [exists |-> TRUE, decodes |-> TRUE,
                value |-> IF v_out.cache.t = "dict" /\ load_snapshot(v_in).t = "dict"
                          THEN PyDict(Update(load_snapshot(v_in).v, v_out.cache.v))
                          ELSE json_load(json_dump(v_out.cache))]
    /\ v_out' = [v_out EXCEPT !.calls = @ + 1, !.saved = v_out.cache]
    /\ UNCHANGED <<pipelineVars, unitVars>>

\* save_cache on the constructed object: open(self.cache_file, 'w') and
\* json.dump(self.cache, f); the file then holds what json.load will read
SaveAfterLoad ==
    /\ v_out /= None
    /\ ~v_out.raised
    /\ v_out.calls < MaxCalls
    /\ v_in' = [exists |-> TRUE, decodes |-> TRUE, value |-> json_load(json_dump(v_out.cache))]
    /\ v_out' = [v_out EXCEPT !.calls = @ + 1, !.saved = v_out.cache]
    /\ UNCHANGED <<pipelineVars, unitVars>>

\* clear on the constructed object
ClearAfterLoad ==
    /\ v_out /= None
    /\ ~v_out.raised
    /\ v_out.calls < MaxCalls
    /\ v_out' = [v_out EXCEPT !.cache = PyDict(EmptyDict), !.hits = 0, !.misses = 0,
                              !.calls = @ + 1]
    /\ UNCHANGED <<v_in, pipelineVars, unitVars>>

\* A new CacheManager on the same directory: __init__ again
Reopen ==
    /\ v_out /= None
    /\ v_out.opens < MaxOpens
    /\ v_out' = [cache |-> load_snapshot(v_in), hits |-> 0, misses |-> 0, calls |-> 0,
                 raised |-> FALSE, opens |-> v_out.opens + 1, saved |-> v_out.saved]
    /\ UNCHANGED <<v_in, pipelineVars, unitVars>>

\* CacheManager.get(key) on the constructed object: self.cache[key] raises TypeError
\* when self.cache is a list or a str
LookupAfterLoad ==
    /\ v_out /= None
    /\ ~v_out.raised
    /\ v_out.calls < MaxCalls
    /\ \E key \in CacheKeys :
           v_out' = IF PyIn(key, v_out.cache)
                    THEN [v_out EXCEPT !.hits = @ + 1, !.calls = @ + 1,
                                       !.raised = v_out.cache.t /= "dict"]
                    ELSE [v_out EXCEPT !.misses = @ + 1, !.calls = @ + 1]
    /\ UNCHANGED <<v_in, pipelineVars, unitVars>>

\* CacheManager.set(key, value) on the constructed object: self.cache[key] = value
\* raises TypeError when self.cache is a list or a str
StoreAfterLoad ==
    /\ v_out /= None
    /\ ~v_out.raised
    /\ v_out.calls < MaxCalls
    /\ \E key \in CacheKeys, value \in CacheRecords :
           v_out' = IF v_out.cache.t = "dict"
                    THEN [v_out EXCEPT !.cache = PyDict(cache_set(v_out.cache.v, key, value,
                                                                  v_out.calls + 1)),
                                       !.calls = @ + 1]
                    ELSE [v_out EXCEPT !.calls = @ + 1, !.raised = TRUE]
    /\ UNCHANGED <<v_in, pipelineVars, unitVars>>

NextLoad ==
    \/ Construct
    \/ LookupAfterLoad
    \/ StoreAfterLoad
    \/ SaveAfterLoad
    \/ ClearAfterLoad
    \/ Reopen

SpecLoad == InitLoad /\ [][NextLoad]_vars

(***************************************************************************)
(* validators.py on its own: sanitize_text, is_valid_year and              *)
(* is_valid_tmdb_id applied to one argument                                *)
(***************************************************************************)
\* The longest text
MaxTextLen == 4

\* The years around the two limits, and one between them
YearEdges == {MIN_YEAR - 1, MIN_YEAR, 2010, MAX_YEAR, MAX_YEAR + 1}

\* What a cell of the input can hold as a year or an id: nothing, an int, a
\* float, a list, or a text of digits, signs, blanks and a letter
NumberValues ==
    {None, NaN, Inf, PyList(<<>>)}
    \cup {PyInt(n) : n \in YearEdges \cup {0 - 1, 0, 1}}
    \cup {PyFloat(neg, w, t) : neg \in BOOLEAN, w \in YearEdges \cup {0, 1, 2}, t \in {0, 5}}
    \cup {PyStr(s) : s \in UNION {[1..n -> {"0", "1", "2", "3", "7", "8", "a", " ", "-", "+"}] :
                                     n \in 0..MaxTextLen}}

\* A record validate_movie accepts whatever its year is set to
YearlessRecord ==
    [tmdb_id |-> PyInt(1), title |-> PyStr(<<"A", "b">>),
     overview |-> PyStr(Rep("x", MIN_OVERVIEW_LENGTH)), release_date |-> PyStr(DateOK),
     genres |-> PyList(<<PyStr(<<"G">>)>>)]

\* Credits payloads: casts of 0 to MaxCast members, numbered in remote order,
\* and crews with no director, one, or two (with another job before, between or
\* after them, and one whose job differs from 'Director' by case only)
MaxCast == 11
CrewLists ==
    {<<>>,
     <<Crew(1, Writer)>>,
     <<Crew(1, <<"d", "i", "r", "e", "c", "t", "o", "r">>)>>,
     <<Crew(1, Director)>>,
     <<Crew(1, Writer), Crew(2, Director), Crew(3, Director)>>,
     <<Crew(3, Director), Crew(1, Writer), Crew(2, Director)>>,
     <<Crew(2, <<"d", "i", "r", "e", "c", "t", "o", "r">>), Crew(3, Director), Crew(1, Writer)>>}
CreditInputs ==
    {[cast |-> PyList([i \in 1..n |-> Person(i)]), crew |-> PyList(c)] :
        n \in 0..MaxCast, c \in CrewLists}
    \cup {[cast |-> PyList([i \in 1..n |-> Person(i)])] : n \in 0..MaxCast}
    \cup {[crew |-> PyList(c)] : c \in CrewLists}

\* The arguments: for sanitize_text, None and the strings over a letter, the
\* whitespace characters and the double quote
ValidatorInputs ==
    [f : {"sanitize_text"},
     x : {None} \cup
         {PyStr(s) : s \in UNION {[1..n -> {"a", " ", "\t", "\n", "\r", "\""}] :
                                     n \in 0..MaxTextLen}}]
    \cup [f : {"is_valid_year", "is_valid_tmdb_id"}, x : NumberValues]
    \cup [f : {"extract_credits"}, x : CreditInputs]

InitValidators ==
    /\ v_in \in ValidatorInputs
    /\ v_out = None
    /\ PipelineIdle
    /\ LimiterIdle

\* MovieValidator.sanitize_text(v_in.x), and sanitize_text of its result
SanitizeTextCall ==
    /\ v_out = None
    /\ v_in.f = "sanitize_text"
    /\ \E once \in {sanitize_text(v_in.x)} :
           v_out' = [once |-> once, twice |-> sanitize_text(PyStr(once))]
    /\ UNCHANGED <<v_in, pipelineVars, unitVars>>

\* MovieValidator.is_valid_year(v_in.x), and validate_movie on a record with
\* that year
IsValidYearCall ==
    /\ v_out = None
    /\ v_in.f = "is_valid_year"
    /\ v_out' = [raised |-> IntEscapes(v_in.x),
                 valid |-> is_valid_year(v_in.x),
                 checked |-> validate_movie(Put(YearlessRecord, "year", v_in.x))]
    /\ UNCHANGED <<v_in, pipelineVars, unitVars>>

\* MovieValidator.is_valid_tmdb_id(v_in.x), and the path _fetch_movie takes for
\* a row with that tmdb_id: `if tmdb_id and self.validator.is_valid_tmdb_id(tmdb_id)`
\* inside `try: ... except Exception: return None`
IsValidTmdbIdCall ==
    /\ v_out = None
    /\ v_in.f = "is_valid_tmdb_id"
    /\ v_out' = [raised |-> IntEscapes(v_in.x),
                 valid |-> is_valid_tmdb_id(v_in.x),
                 path |-> IF ~Truthy(v_in.x) THEN "by_title"
                          ELSE IF IntEscapes(v_in.x) THEN "none"
                          ELSE IF is_valid_tmdb_id(v_in.x) THEN "by_id"
                          ELSE "by_title"]
    /\ UNCHANGED <<v_in, pipelineVars, unitVars>>

\* MovieFetcher._extract_credits(v_in.x)
ExtractCreditsCall ==
    /\ v_out = None
    /\ v_in.f = "extract_credits"
    /\ v_out' = extract_credits(v_in.x)
    /\ UNCHANGED <<v_in, pipelineVars, unitVars>>

NextValidators ==
    \/ SanitizeTextCall
    \/ IsValidYearCall
    \/ IsValidTmdbIdCall
    \/ ExtractCreditsCall

SpecValidators == InitValidators /\ [][NextValidators]_vars

(***************************************************************************)
(* Properties                                                              *)
(***************************************************************************)
\* The pc values at which a client call has returned to the fetcher
ClientReturned == {"search_ret", "details_ret", "credits_ret", "keywords_ret"}

\* Every entry of the snapshot the cache was loaded from passes validate_movie
SnapshotValid ==
    \A k \in DOMAIN snapshot0.doc : validate_movie(snapshot0.doc[k]) = Accept

\* C1 (as the code has it): when every entry of the initial snapshot passes
\* validate_movie (a missing snapshot included), then for any remote responses
\* every record appended to results, and so every record written to the output
\* file, is one validate_movie accepts.
C1_ValidationGate ==
    SnapshotValid =>
        /\ \A i \in 1..Len(results) : validate_movie(results[i]) = Accept
        /\ pc = "done" => output_file = CsvFile(results)

\* C1 witness: a run over a valid snapshot has finished and written a record
\* that was not in the snapshot, one that went through validation in this run.
C1_Witness ==
    /\ SnapshotValid
    /\ pc = "done"
    /\ \E i \in 1..Len(output_file.rows) :
          \A k \in DOMAIN snapshot0.doc : output_file.rows[i] /= snapshot0.doc[k]

\* C1 as stated: for any initial snapshot and any remote responses, every
\* record appended to results is one validate_movie accepts.
C1_AnySnapshot ==
    \A i \in 1..Len(results) : validate_movie(results[i]) = Accept

\* C2 as stated: a request answered with a fatal status (401, 403) does not
\* return to the fetcher; the failure leaves the client and the run stops.
C2_FatalAborts ==
    ~(pc \in ClientReturned /\ req.last \in FATAL_STATUS_CODES)

\* The conditions under which C3 says validate_movie rejects
C3_RejectCondition(m) ==
    \/ \E i \in 1..Len(REQUIRED_FIELDS) :
          ~Has(m, REQUIRED_FIELDS[i]) \/ m[REQUIRED_FIELDS[i]] = None
    \/ Len(m["overview"].v) < 20
    \/ Strip(m["overview"].v) = <<>>
    \/ /\ Has(m, "year")
       /\ m["year"] /= None
       /\ ~(PyIntOf(m["year"]).ok /\ PyIntOf(m["year"]).v \in 1888..2030)
    \/ ~Has(m, "genres")
    \/ ~Truthy(m["genres"])

\* C3 as stated: validate_movie returns a verdict for every record; it rejects
\* exactly when a required field is missing or null, the overview is shorter
\* than 20 characters or blank, a non-null year is not an integer in
\* [1888, 2030], or the genre list is empty; otherwise it accepts with an empty
\* reason.
C3_ExactRejection ==
    v_out /= None =>
        /\ ~v_out.raised
        /\ v_out.ok <=> ~C3_RejectCondition(v_in)
        /\ v_out.ok => v_out.msg = ""

\* C4 as stated: when the row before this one was the same title and year,
\* fetched by title, and returned a record, this row's fetch returns that record
\* from the cache with no remote call and one more hit.
C4_SecondFetchFromCache ==
    ( /\ pc = "returned"
      /\ idx >= 1
      /\ rows[idx + 1] = rows[idx]
      /\ ~(Truthy(rows[idx].tmdb_id) /\ is_valid_tmdb_id(rows[idx].tmdb_id))
      /\ outcome[idx] = "success" )
    => /\ via = "title_hit"
       /\ calls = NoCalls
       /\ ret = results[Len(results)]
       /\ hits = hits0 + 1

\* C5: a fetch_by_id that finds an entry under id_<id> returns that entry as it
\* is, with no remote call and no validation; the cache map, the miss counter
\* and the snapshot file stay as they were and the hit counter grows by one.
C5_IdHitAsIs ==
    [][ (pc = "by_id" /\ make_id_key(cur_id) \in DOMAIN cache)
        => /\ pc' = "returned"
           /\ ret' = cache[make_id_key(cur_id)]
           /\ hits' = hits + 1
           /\ UNCHANGED <<cache, misses, clock, cache_file, calls, req, enriched>> ]_vars

\* C5 witness: fetch_by_id has returned an entry of the cache that validate_movie
\* does not accept, without a details call.
C5_Witness ==
    /\ pc = "returned"
    /\ via = "id_hit"
    /\ calls.details = 0
    /\ validate_movie(ret) /= Accept

\* C6: on a title-key miss fetch_by_title makes one search call, and only one;
\* a search with results goes on by id with the id of the first result; when
\* that id is in the cache the cached record is returned with no further call.
C6_TitleMissSearchFirst ==
    /\ [](calls.search <= 1)
    /\ [][ /\ ( /\ pc = "by_title"
                /\ rows[idx + 1].title.t = "str"
                /\ make_title_key(rows[idx + 1].title, rows[idx + 1].year) \notin DOMAIN cache )
              => /\ pc' = "http"
                 /\ req' = NewReq("search")
                 /\ calls' = [NoCalls EXCEPT !.search = 1]
           /\ (pc = "search_ret" /\ pc' = "by_id")
              => cur_id' = data["results"].v[1]["id"]
           /\ ( /\ pc = "search_ret"
                /\ DictTruthy(data)
                /\ Len(data["results"].v) > 0 )
              => pc' = "by_id"
           /\ (pc = "by_id" /\ calls.search = 1 /\ make_id_key(cur_id) \in DOMAIN cache)
              => /\ pc' = "returned"
                 /\ ret' = cache[make_id_key(cur_id)]
                 /\ calls' = [NoCalls EXCEPT !.search = 1] ]_vars

\* C6 witness: a fetch by title missed the title key, searched once, and was
\* served from the cache under the id of the search result.
C6_Witness ==
    /\ pc = "returned"
    /\ via = "id_hit"
    /\ calls = [NoCalls EXCEPT !.search = 1]

\* C7: when fetch_by_id has returned absent, after a details call that gave
\* nothing or a record the validator rejected, no exception is in flight and the
\* cache map is the one the call began with; no hit was counted.
C7_AbsentLeavesCache ==
    (pc = "returned" /\ via \in {"absent", "rejected"} /\ calls.details = 1)
    => /\ ret = None
       /\ cache = cache0
       /\ hits = hits0

\* C7 witness: the validator rejected a fetched record while a cache the
\* fetcher uses was in place.
C7_Witness ==
    /\ pc = "returned"
    /\ via = "rejected"
    /\ calls.details = 1
    /\ CacheTruthy(cache)

\* C8: an exception raised while a row is fetched is turned into "absent" by
\* _fetch_movie, and the loop counts the row as failed, appends nothing, and
\* moves to the next row.
C8_ExceptionsCaught ==
    [][ /\ pc = "raised"
           => /\ pc' = "returned"
              /\ ret' = None
              /\ via' = "exception"
        /\ (pc = "returned" /\ via = "exception")
           => /\ pc' = "loop"
              /\ idx' = idx + 1
              /\ results' = results
              /\ outcome' = Append(outcome, "failed")
              /\ stats' = [stats EXCEPT !.failed = @ + 1] ]_vars

\* C8 witness: the first row raised and was returned as absent, with a row
\* still to come.
C8_Witness ==
    /\ pc = "returned"
    /\ via = "exception"
    /\ idx + 1 < Len(rows)

\* C9: the row index only ever moves by one, when a row's fetch has returned
\* and its outcome is recorded, and the run eventually reaches the final save
\* with every row given exactly one outcome.
C9_EveryRowThenSave ==
    /\ [][ idx' /= idx
           => /\ pc = "returned"
              /\ idx < Len(rows)
              /\ idx' = idx + 1
              /\ Len(outcome') = idx' ]_vars
    /\ <>( /\ pc = "done"
           /\ idx = Len(rows)
           /\ Len(outcome) = Len(rows)
           /\ output_file = CsvFile(results) )

\* C9 witness: a finished run in which one row was found and another was not.
C9_Witness ==
    /\ pc = "done"
    /\ \E i \in 1..Len(outcome) : outcome[i] = "success"
    /\ \E i \in 1..Len(outcome) : outcome[i] = "failed"

\* C10 as stated: 429 answers are retried without a cap, so a client call never
\* returns to the fetcher on a 429 answer.
C10_NoCapOn429 ==
    ~(pc \in ClientReturned /\ req.last = 429)

\* C11: a client call never makes more than MAX_RETRIES retries, and a call whose
\* last answer was a retryable server error (500, 502, 503, 504) ends only when
\* the retries are used up, by returning None to the fetcher: no exception
\* leaves the client.
C11_ServerErrorRetriesBounded ==
    /\ [](req.retries <= MAX_RETRIES)
    /\ [][ ( /\ pc = "http"
             /\ pc' /= "http"
             /\ req'.last \in RETRYABLE_STATUS_CODES \ {429} )
           => /\ req.retries = MAX_RETRIES
              /\ pc' = req.op \o "_ret"
              /\ data' = None ]_vars

\* C11 witness: a details call has come back empty after its last attempt met
\* a 500.
C11_Witness ==
    /\ pc = "details_ret"
    /\ req.last = 500
    /\ data = None

\* The outbound calls that _rate_limit released
ByRateLimit(c) == c.by = "rate_limit"
LimiterReleases == SelectSeq(out, ByRateLimit)

\* C12: with one calling thread, the instants of any two consecutive outbound
\* calls, a request sent again after a 429 included, are at least RATE_LIMIT_DELAY
\* apart.
C12_ConsecutiveCallsSpaced ==
    callers = {1} =>
        \A i \in 1..(Len(out) - 1) : out[i + 1].at - out[i].at >= RATE_LIMIT_DELAY

\* C13: whichever threads call the client, the instants at which _rate_limit
\* releases two consecutive calls are at least RATE_LIMIT_DELAY apart.
C13_SpacingUnderThreads ==
    \A i \in 1..(Len(LimiterReleases) - 1) :
        LimiterReleases[i + 1].at - LimiterReleases[i].at >= RATE_LIMIT_DELAY

\* The threads that are inside a `with self.lock:` block
InCritical == {t \in Threads : cth[t].pc \in {"locked", "counting", "dumping", "unlock"}}

\* C14: under any interleaving of threads calling get, set, clear and save_cache,
\* at most one thread is inside the locked block; whenever no thread is inside,
\* hits + misses equals the lookups completed (since the last clear); and the
\* snapshot on disk is a map the cache held between two operations.
C14_LockSerialises ==
    /\ Cardinality(InCritical) <= 1
    /\ InCritical = {} => hits + misses = seen.lookups
    /\ cache_file.exists => cache_file.doc \in seen.between

\* C14 witness: with two calling threads, a non-empty snapshot has been written,
\* and one thread is counting a lookup while the other waits for the lock.
C14_Witness ==
    /\ callers = Threads
    /\ cache_file.exists
    /\ cache_file.doc /= EmptyDict
    /\ \E t, u \in Threads : cth[t].pc = "counting" /\ cth[u].pc = "acquire"

\* C15: the step of a get, get_by_id or get_by_title that counts adds exactly 1 to
\* exactly one of hits and misses, and no other step of any call but clear changes
\* either; between calls, hits is the number of lookups since construction or the
\* last clear whose key was in the map, and misses the number whose key was not.
C15_CountersCountLookups ==
    /\ [](InCritical = {} =>
            /\ hits = seen.found
            /\ misses = seen.absent
            /\ hits + misses = seen.lookups)
    /\ [][\A t \in Threads :
            cth'[t] /= cth[t] /\ cth[t].op /= "clear" =>
                IF cth[t].pc = "counting"
                THEN \/ hits' = hits + 1 /\ misses' = misses
                     \/ hits' = hits /\ misses' = misses + 1
                ELSE hits' = hits /\ misses' = misses]_vars

\* C15 witness: one thread has looked up an absent key once, stored under it, and
\* looked it up twice more.
C15_Witness ==
    /\ callers = {1}
    /\ InCritical = {}
    /\ misses = 1
    /\ hits = 2

\* C16: with one calling thread, once set_movie(r) has returned for a record r
\* with tmdb_id and title, and until the next set or clear, a lookup under r's id
\* key or under r's title key returns r with the timestamp of the write as its
\* fetched_at.
C16_StoredUnderBothKeys ==
    \A t \in Threads :
        ( /\ callers = {1}
          /\ cth[t].op \in Lookups
          /\ cth[t].pc = "unlock"
          /\ seen.stored /= EmptyDict
          /\ cth[t].key \in set_movie_keys(seen.stored) )
        => cth[t].result = Put(seen.stored, "fetched_at", PyInt(seen.at))

\* C16 witness: get_by_title has returned for the title and year of the record
\* that set_movie stored last.
C16_Witness ==
    /\ callers = {1}
    /\ cth[1].op = "get_by_title"
    /\ cth[1].pc = "unlock"
    /\ seen.stored /= EmptyDict
    /\ cth[1].key \in set_movie_keys(seen.stored)

\* Two titles made of the same words, up to the case of their letters and the
\* whitespace around and between the words
SameWords(a, b) == Lower(JoinSplit(a)) = Lower(JoinSplit(b))

\* C17: two titles that differ only in letter case and in whitespace get, with the
\* same year, the same key from _make_title_key; without a year the key ends in
\* "_unknown".
C17_TitleKeyInsensitive ==
    v_out /= None =>
        /\ SameWords(v_in.a.v, v_in.b.v) => v_out.a = v_out.b
        /\ v_in.year = None =>
               /\ Len(v_out.a) >= 8
               /\ SubSeq(v_out.a, Len(v_out.a) - 7, Len(v_out.a)) =
                      <<"_", "u", "n", "k", "n", "o", "w", "n">>

\* C18: when the snapshot file is missing, or holds anything but a JSON object,
\* the constructed CacheManager starts with an empty map and both counters at 0,
\* and no later lookup or store raises.
C18_BadSnapshotStartsEmpty ==
    ( /\ v_out /= None
      /\ ~(v_in.exists /\ v_in.decodes /\ v_in.value.t = "dict") )
    => /\ ~v_out.raised
       /\ v_out.calls = 0 =>
              /\ v_out.cache.t = "dict"
              /\ DOMAIN v_out.cache.v = {}
              /\ v_out.hits = 0
              /\ v_out.misses = 0

\* C19: when the loop counts a row whose record the validator rejected,
\* stats['invalid'] grows by 1.
C19_RejectedCountedInvalid ==
    [][ (pc = "returned" /\ via = "rejected" /\ pc' = "loop")
        => stats'.invalid = stats.invalid + 1 ]_vars

\* C20: a row whose fetched record the validator rejected comes back from the fetch
\* as None, adds nothing to the results, adds 1 to failed and nothing to success;
\* every processed row adds exactly 1 to exactly one of success and failed, and
\* nothing else changes either counter.
C20_RejectedCountsAsFailed ==
    /\ [](stats.success + stats.failed = idx /\ stats.success = Len(results))
    /\ [][ IF pc = "returned" /\ pc' = "loop"
           THEN /\ \/ stats'.success = stats.success + 1 /\ stats'.failed = stats.failed
                   \/ stats'.success = stats.success /\ stats'.failed = stats.failed + 1
                /\ via = "rejected" =>
                       /\ ret = None
                       /\ results' = results
                       /\ stats'.failed = stats.failed + 1
                       /\ stats'.success = stats.success
           ELSE stats'.success = stats.success /\ stats'.failed = stats.failed ]_vars

\* C20 witness: a record fetched from the remote API was rejected by the validator
\* and the fetch has returned None to the loop.
C20_Witness ==
    /\ pc = "returned"
    /\ via = "rejected"
    /\ calls.details = 1
    /\ ret = None

\* C21: a record that the fetcher is about to write to the cache and return has
\* all five essential fields, tmdb_id, title, overview, release_date and year,
\* present and not None.
C21_EssentialFieldsAdmitted ==
    pc = "store" =>
        \A f \in {"tmdb_id", "title", "overview", "release_date", "year"} :
            Has(enriched, f) /\ enriched[f] /= None

\* C22: sanitize_text applied to its own result changes nothing, and its result
\* holds no newline, carriage return or double quote, no two whitespace characters
\* in a row, and no whitespace at either end.
C22_SanitizeIdempotent ==
    (v_out /= None /\ v_in.f = "sanitize_text") =>
        /\ v_out.twice = v_out.once
        /\ \A i \in 1..Len(v_out.once) : v_out.once[i] \notin {"\n", "\r", "\""}
        /\ \A i \in 1..(Len(v_out.once) - 1) :
               ~(v_out.once[i] \in Whitespace /\ v_out.once[i + 1] \in Whitespace)
        /\ v_out.once /= <<>> =>
               /\ v_out.once[1] \notin Whitespace
               /\ v_out.once[Len(v_out.once)] \notin Whitespace

\* C22 witness: sanitize_text has been applied to a string that holds a newline and
\* a double quote next to each other, and has changed it.
C22_Witness ==
    /\ v_out /= None
    /\ v_in.f = "sanitize_text"
    /\ v_in.x /= None
    /\ \E i \in 1..(Len(v_in.x.v) - 1) : v_in.x.v[i] = "\n" /\ v_in.x.v[i + 1] = "\""
    /\ v_out.once /= v_in.x.v
    /\ v_out.once /= <<>>

\* C23 as stated: a client call that ended in a timeout or a connection failure
\* returns None without raising, and whichever of the four operations it was, the
\* fetcher's next step returns None for the record.
C23_NetworkFailureMeansAbsent ==
    /\ [][ (pc = "http" /\ pc' /= "http" /\ req'.last = 0 - 1)
           => (data' = None /\ pc' = req.op \o "_ret") ]_vars
    /\ [][ (pc \in ClientReturned /\ req.last = 0 - 1)
           => (pc' = "returned" /\ ret' = None) ]_vars

\* C23 amended: a client call that ended in a timeout or a connection failure
\* returns None without raising; after search_movie or get_movie_details the
\* fetcher returns None for the record, after get_movie_credits or
\* get_movie_keywords it goes on with an empty cast or an empty keyword list; the
\* run is never aborted.
C23_NetworkFailureDegrades ==
    /\ [](pc /= "aborted")
    /\ [][ (pc = "http" /\ pc' /= "http" /\ req'.last = 0 - 1)
           => (data' = None /\ pc' = req.op \o "_ret") ]_vars
    /\ [][ (pc \in {"search_ret", "details_ret"} /\ req.last = 0 - 1)
           => (pc' = "returned" /\ ret' = None) ]_vars
    /\ [][ (pc = "credits_ret" /\ req.last = 0 - 1)
           => /\ pc' \in {"http", "validate"}
              /\ Get(enriched', "cast", None) = PyList(<<>>) ]_vars
    /\ [][ (pc = "keywords_ret" /\ req.last = 0 - 1)
           => /\ pc' = "validate"
              /\ Get(enriched', "keywords", None) = PyList(<<>>) ]_vars

\* C23 witness: get_movie_credits has returned None to the fetcher after its last
\* attempt met a network failure.
C23_Witness ==
    /\ pc = "credits_ret"
    /\ req.last = 0 - 1
    /\ data = None

\* C24: a checkpoint is written exactly when the number of processed input
\* rows (idx after the row) reaches a multiple of CHECKPOINT_INTERVAL: the
\* checkpoint file changes only at such a row, and at such a row it holds the
\* results collected so far
C24_CheckpointEveryInterval ==
    [][ pc = "returned" =>
          /\ (checkpoint_file' /= checkpoint_file => idx' % CHECKPOINT_INTERVAL = 0)
          /\ (idx' % CHECKPOINT_INTERVAL = 0 => checkpoint_file' = CsvFile(results')) ]_vars

\* The text s is a decimal numeral (blanks around it, an optional sign, leading
\* zeros) of the integer y >= 0 or, with a minus sign, of -y
Numeral(s, y, minus) ==
    LET body == Strip(s) IN
    \E k \in 0..Len(body) :
        \/ ~minus /\ body = Rep("0", k) \o NatToStr(y)
        \/ ~minus /\ body = <<"+">> \o Rep("0", k) \o NatToStr(y)
        \/ minus /\ body = <<"-">> \o Rep("0", k) \o NatToStr(y)

\* The value x, converted to an integer, is y (a float by dropping its decimals)
ParsesTo(x, y) ==
    \/ x = PyInt(y)
    \/ x.t = "str" /\ Numeral(x.v, y, FALSE)
    \/ x.t = "float" /\ x.v = "num" /\ ~x.neg /\ x.whole = y

PositiveNumeral(s) ==
    LET body == IF Strip(s) /= <<>> /\ Head(Strip(s)) = "+" THEN Tail(Strip(s)) ELSE Strip(s)
    IN /\ body /= <<>>
       /\ \A i \in 1..Len(body) : body[i] \in {"0", "1", "2", "3", "4", "5", "6", "7", "8", "9"}
       /\ \E i \in 1..Len(body) : body[i] /= "0"

\* C26: is_valid_tmdb_id(x) is true exactly when x is a positive integer (an
\* int, or a float without decimals) or a text that parses to one, and
\* _fetch_movie takes the by-id path exactly when the row's tmdb_id passes it,
\* the by-title path otherwise
C26_IdCheckChoosesPath ==
    (v_out /= None /\ v_in.f = "is_valid_tmdb_id") =>
        /\ ~v_out.raised
        /\ v_out.valid =
              \/ v_in.x.t = "int" /\ v_in.x.v > 0
              \/ v_in.x.t = "float" /\ v_in.x.v = "num"
                    /\ ~v_in.x.neg /\ v_in.x.whole > 0 /\ v_in.x.tenths = 0
              \/ v_in.x.t = "str" /\ PositiveNumeral(v_in.x.v)
        /\ v_out.path = (IF v_out.valid THEN "by_id" ELSE "by_title")

\* The place of the current state among the steps of fetch_by_id: 1 cache
\* lookup, 2 detail fetch (the extraction is the end of it), 3 credits fetch,
\* 4 keywords fetch, 5 validation, 6 cache write, 7 an exception on its way
\* out, 8 done; 0 outside fetch_by_id
StepOf(p, op) ==
    CASE p = "by_id" -> 1
      [] p \in {"http", "details_ret"} /\ op = "details" -> 2
      [] p \in {"http", "credits_ret"} /\ op = "credits" -> 3
      [] p \in {"http", "keywords_ret"} /\ op = "keywords" -> 4
      [] p = "validate" -> 5
      [] p = "store" -> 6
      [] p = "raised" -> 7
      [] p = "returned" -> 8
      [] OTHER -> 0

C28_CacheHoldsAcceptedRecords ==
    SnapshotValid => \A k \in DOMAIN cache : validate_movie(cache[k]) = Accept

\* C28 witness: fetches have written an entry that the cache did not start with
C28_Witness ==
    /\ SnapshotValid
    /\ idx > 0
    /\ \E k \in DOMAIN cache : k \notin DOMAIN snapshot0.doc

\* C29: every step of a cache operation that reads or writes the map or the
\* counters is taken by a thread that holds the lock, and what get_stats returns
\* as size, hits and misses is what the three were at one instant during the call
C29_StatsUnderLock ==
    /\ [][ \A t \in Threads :
              ( /\ cth'[t] /= cth[t]
                /\ cth[t].pc \in {"locked", "counting", "dumping", "stats_rate",
                                  "stats_size", "stats_hits", "stats_misses"} )
              => lock = t ]_vars
    /\ [](\A t \in Threads :
              cth[t].pc = "stats_ret" =>
                  \E i \in seen.instants :
                      /\ cth[t].result["size"] = i.size
                      /\ cth[t].result["hits"] = i.hits
                      /\ cth[t].result["misses"] = i.misses)

\* C30: a set_movie(r) writes the id key and the title key of r and changes
\* the entry under no other key, and a set on one key writes that key and
\* leaves the entry under every other key, the other key of the same record
\* included, as it was
C30_SetWritesOnlyItsKeys ==
    [][ \A t \in Threads :
          (cth[t].pc = "locked" /\ cth[t].op \in {"set", "set_movie"} /\ cth'[t] /= cth[t]) =>
              /\ DOMAIN cache' = (DOMAIN cache) \cup {cth[t].key}
              /\ cth[t].op = "set_movie" => cth[t].key \in set_movie_keys(cth[t].given)
              /\ \A k \in DOMAIN cache :
                     \/ k = cth[t].key
                     \/ cth[t].op = "set_movie" /\ k \in set_movie_keys(cth[t].given)
                     \/ cache'[k] = cache[k] ]_vars

\* C31: a key that is in the cache map stays in it through every step of every
\* cache operation but the body of clear, which empties the map; a set only adds
\* its key or replaces the value under it
C31_KeysStayUntilClear ==
    [][ IF \E t \in Threads : cth[t].op = "clear" /\ cth[t].pc = "locked" /\ cth'[t] /= cth[t]
        THEN cache' = EmptyDict
        ELSE DOMAIN cache \subseteq DOMAIN cache' ]_vars

\* C31 witness: a set has just written into a map of two keys, after a lookup
\* that found its key and a save
C31_Witness ==
    /\ \E t \in Threads : cth[t].op = "set" /\ cth[t].pc = "unlock"
    /\ Cardinality(DOMAIN cache) >= 2
    /\ hits > 0
    /\ cache_file.exists

\* C32: a CacheManager constructed on a directory in which save_cache has run,
\* before any call on it, holds exactly the map the saving instance held at its
\* last save, nothing of an older snapshot besides, and has hits = misses = 0
C32_ReopenRestoresSavedMap ==
    (v_out /= None /\ v_out.opens > 1 /\ v_out.calls = 0 /\ v_out.saved /= None) =>
        /\ v_out.cache = v_out.saved
        /\ v_in.value = v_out.saved
        /\ v_out.hits = 0
        /\ v_out.misses = 0

\* C32 witness: the first instance was loaded from a snapshot with entries,
\* cleared, given one entry and saved; the new instance holds that entry only
C32_Witness ==
    /\ v_out /= None
    /\ v_out.opens > 1
    /\ v_out.calls = 0
    /\ v_out.saved /= None
    /\ v_out.cache.t = "dict"
    /\ Cardinality(DOMAIN v_out.cache.v) = 1
    /\ \E k \in DOMAIN SnapshotGood : k \notin DOMAIN v_out.cache.v

\* The free-text fields of a record
FreeTextFields == {"title", "overview", "original_title", "tagline"}

\* Every free-text field of the record r is a string in sanitized form
Sanitized(r) ==
    \A f \in FreeTextFields :
        Has(r, f) /\ r[f].t = "str" /\ sanitize_text(r[f]) = r[f].v

\* C33: the record that reaches validation, and the one that reaches the cache
\* write, has every free-text field equal to its own sanitization; so has every
\* cache entry the fetcher wrote; and a record is admitted only when its
\* sanitized overview has the minimum length
C33_FreeTextSanitized ==
    /\ pc \in {"validate", "store"} => Sanitized(enriched)
    /\ pc = "store" => Len(sanitize_text(enriched["overview"])) >= MIN_OVERVIEW_LENGTH
    /\ \A k \in DOMAIN cache :
           (k \notin DOMAIN snapshot0.doc \/ cache[k] /= snapshot0.doc[k]) => Sanitized(cache[k])

\* C33 witness: a payload with a quoted, double-spaced tagline and an overview
\* that falls under the minimum once the blanks around it are gone stands before
\* validation
C33_Witness ==
    /\ pc = "validate"
    /\ Has(enriched, "tagline")
    /\ enriched["tagline"] = PyStr(<<"'", "t", " ", "u">>)
    /\ Len(enriched["overview"].v) = MIN_OVERVIEW_LENGTH - 1
    /\ CacheTruthy(cache)

\* The text of the overview of a record ("" when it has none)
OverviewText(r) ==
    IF Has(r, "overview") /\ r["overview"] /= None THEN r["overview"].v ELSE <<>>

\* The checks a record violates, numbered in the order of the claim: 1 required
\* fields, 2 synopsis length, 3 blank synopsis, 4 year, 5 genre count
ViolatedChecks(r) ==
    {c \in 1..5 :
        CASE c = 1 -> \E i \in 1..Len(REQUIRED_FIELDS) :
                         ~Has(r, REQUIRED_FIELDS[i]) \/ r[REQUIRED_FIELDS[i]] = None
          [] c = 2 -> Len(OverviewText(r)) < MIN_OVERVIEW_LENGTH
          [] c = 3 -> Strip(OverviewText(r)) = <<>>
          [] c = 4 -> Has(r, "year") /\ r["year"] /= None /\ ~is_valid_year(r["year"])
          [] OTHER -> ~Has(r, "genres") \/ r["genres"] = None \/ Len(r["genres"].v) < MIN_GENRES}

\* The reasons validate_movie gives for a check
ReasonsOfCheck(c) ==
    CASE c = 1 -> {"Campo obrigatorio ausente: " \o REQUIRED_FIELDS[i] : i \in 1..Len(REQUIRED_FIELDS)}
      [] c = 2 -> {"Overview muito curto"}
      [] c = 3 -> {"Overview e string vazia"}
      [] c = 4 -> {"Ano invalido", "Ano fora do intervalo valido"}
      [] OTHER -> {"Generos insuficientes"}

\* C34: for a record that violates several checks, validate_movie returns a
\* rejection whose reason is that of the earliest violated check in the order
\* required fields, synopsis length, blank synopsis, year, genre count
C34_EarliestReasonReturned ==
    (v_out /= None /\ Cardinality(ViolatedChecks(v_in)) >= 2) =>
        /\ ~v_out.raised
        /\ ~v_out.ok
        /\ \E c \in ViolatedChecks(v_in) :
              /\ \A d \in ViolatedChecks(v_in) : c <= d
              /\ v_out.msg \in ReasonsOfCheck(c)

\* C34 witness: a record with a short overview, a year out of range and null
\* genres was rejected for its overview
C34_Witness ==
    /\ v_out /= None
    /\ ViolatedChecks(v_in) = {2, 4, 5}
    /\ Has(v_in, "genres")
    /\ v_in["genres"] = None
    /\ ~v_out.raised
    /\ v_out.msg = "Overview muito curto"

\* The cast and the crew of a credits payload ([] for a missing list)
RemoteCast(c) == IF Has(c, "cast") THEN c["cast"].v ELSE <<>>
RemoteCrew(c) == IF Has(c, "crew") THEN c["crew"].v ELSE <<>>

\* C35: cast and cast_ids hold the names and ids of the first
\* min(TOP_CAST_COUNT, length) cast members in remote order, and director is
\* the name of the first crew member whose job is 'Director', or None when the
\* crew has none
C35_TopCastAndFirstDirector ==
    (v_out /= None /\ v_in.f = "extract_credits") =>
        LET n == IF Len(RemoteCast(v_in.x)) < TOP_CAST_COUNT
                 THEN Len(RemoteCast(v_in.x)) ELSE TOP_CAST_COUNT
            crew == RemoteCrew(v_in.x)
            directors == {i \in 1..Len(crew) : crew[i]["job"] = PyStr(Director)}
        IN /\ Len(v_out.cast.v) = n
           /\ Len(v_out.cast_ids.v) = n
           /\ \A i \in 1..n : /\ v_out.cast.v[i] = RemoteCast(v_in.x)[i]["name"]
                              /\ v_out.cast_ids.v[i] = RemoteCast(v_in.x)[i]["id"]
           /\ directors = {} => v_out.director = None
           /\ \A i \in directors :
                 (\A j \in directors : i <= j) => v_out.director = crew[i]["name"]

\* C35 witness: a cast of more than TOP_CAST_COUNT members was cut to the first
\* ten and the director is the first of two, listed after a writer
C35_Witness ==
    /\ v_out /= None
    /\ v_in.f = "extract_credits"
    /\ Len(RemoteCast(v_in.x)) > TOP_CAST_COUNT
    /\ Len(v_out.cast.v) = TOP_CAST_COUNT
    /\ v_out.cast_ids.v[TOP_CAST_COUNT] = PyInt(TOP_CAST_COUNT)
    /\ RemoteCrew(v_in.x) = <<Crew(1, Writer), Crew(2, Director), Crew(3, Director)>>
    /\ v_out.director = Crew(2, Director)["name"]

\* The fields the credits and keywords extensions add to a record
ExtensionFields == {"cast", "cast_ids", "director", "keywords"}

\* The record r without its extension fields
WithoutExtensions(r) == [f \in DOMAIN r \ ExtensionFields |-> r[f]]

\* C36: when the credits call or the keywords call returned nothing, the record
\* gets an empty cast and cast_ids and no director, or empty keywords, and goes
\* on to the next step; whether a record is admitted does not depend on its
\* extension fields; and an admitted record is returned (and written to a
\* non-empty cache) whatever they hold
C36_EmptyExtensionKeepsRecord ==
    /\ [][ (pc = "credits_ret" /\ ~DictTruthy(data))
           => /\ Get(enriched', "cast", None) = PyList(<<>>)
              /\ Get(enriched', "cast_ids", None) = PyList(<<>>)
              /\ Has(enriched', "director")
              /\ enriched'["director"] = None
              /\ pc' = (IF enable_keywords THEN "http" ELSE "validate") ]_vars
    /\ [][ (pc = "keywords_ret" /\ ~DictTruthy(data))
           => /\ Get(enriched', "keywords", None) = PyList(<<>>)
              /\ pc' = "validate" ]_vars
    /\ [][ pc = "validate"
           => /\ pc' \in {"store", "returned"}
              /\ pc' = "store" <=> validate_movie(WithoutExtensions(enriched)) = Accept ]_vars
    /\ [][ pc = "store"
           => /\ pc' = "returned"
              /\ ret' /= None
              /\ \A f \in DOMAIN enriched : ret'[f] = enriched[f]
              /\ CacheTruthy(cache) => cache'[make_id_key(enriched["tmdb_id"])] = ret' ]_vars

\* C36 witness: a record fetched with both extensions enabled was returned with
\* an empty cast, no director and no keywords, after both calls returned nothing
C36_Witness ==
    /\ pc = "returned"
    /\ via = "api"
    /\ enable_credits
    /\ enable_keywords
    /\ ret /= None
    /\ ret["cast"] = PyList(<<>>)
    /\ ret["director"] = None
    /\ ret["keywords"] = PyList(<<>>)
    /\ calls.credits >= 1
    /\ calls.keywords >= 1
    /\ CacheTruthy(cache)

\* C37 as stated: after every completed process_dataset call, the first or a
\* later one on the same pipeline, success + failed equals total and success
\* equals the number of records in the returned results
C37_TalliesMatchTotal ==
    pc = "done" =>
        /\ stats.success + stats.failed = stats.total
        /\ stats.success = Len(results)

\* What the code keeps across calls: total is the row count of the last call,
\* success and failed are the sums over all calls so far (of which the last
\* one contributed Len(results) successes)
C37_TalliesAccumulate ==
    pc = "done" =>
        /\ stats.total = Len(rows)
        /\ \E n \in 1..MaxRuns : stats.success + stats.failed = n * Len(rows)
        /\ stats.success >= Len(results)

\* A second call has completed with successes in both calls
C37_SecondRunDone ==
    /\ pc = "done"
    /\ stats.success + stats.failed = 2 * Len(rows)
    /\ Len(results) >= 1
    /\ stats.success > Len(results)

\* cache.hits when the process_dataset call under way began (0 for the first
\* call on the pipeline, whose cache was created with it)
HitsAtRunStart == IF v_in = None THEN 0 ELSE v_in.v

\* C38 as stated: a row adds one to the cache's hit counter exactly when its
\* record was returned from the cache (by an id-key or a title-key hit), and
\* after process_dataset stats.from_cache is the number of such rows of that
\* run, that is, the hits counted since the run began
C38_FromCacheCountsRunRows ==
    /\ [][ (pc = "returned" /\ pc' = "loop")
           => hits - hits0 = (IF via \in {"id_hit", "title_hit"} THEN 1 ELSE 0) ]_vars
    /\ [](pc = "done" => stats.from_cache = hits - HitsAtRunStart)

\* What the code reports: the hits of the cache object since it was created
C38_FromCacheIsLifetimeHits ==
    /\ [][ (pc = "returned" /\ pc' = "loop")
           => hits - hits0 = (IF via \in {"id_hit", "title_hit"} THEN 1 ELSE 0) ]_vars
    /\ [](pc = "done" => stats.from_cache = hits)

\* A second call has completed after a first one that had a cache hit
C38_SecondRunAfterHits ==
    /\ pc = "done"
    /\ HitsAtRunStart > 0
    /\ hits > HitsAtRunStart

\* The sequence p is the beginning of the sequence q
BeginsWith(q, p) == Len(p) <= Len(q) /\ SubSeq(q, 1, Len(p)) = p

\* C39: every checkpoint written during the run is the beginning of the
\* results collected so far, and the final output holds all the results, in
\* input order, so that it begins with the rows of each earlier checkpoint
C39_CheckpointsBeginFinalOutput ==
    /\ \A k \in 1..Len(v_out) : BeginsWith(results, v_out[k])
    /\ checkpoint_file.exists => checkpoint_file.rows = v_out[Len(v_out)]
    /\ pc = "done" =>
          /\ output_file.exists
          /\ \A k \in 1..Len(v_out) : BeginsWith(output_file.rows, v_out[k])
          /\ \A i, j \in 1..Len(output_file.rows) :
                i < j => output_file.rows[i]["tmdb_id"].v < output_file.rows[j]["tmdb_id"].v
          /\ Len(output_file.rows) = v_in.n - Cardinality(v_in.fails)

\* C39 witness: the run has ended after checkpoints of CHECKPOINT_INTERVAL and
\* of twice as many rows, and the final output holds more rows than either
C39_Witness ==
    /\ pc = "done"
    /\ Len(v_out) = 2
    /\ Len(v_out[1]) = CHECKPOINT_INTERVAL
    /\ Len(v_out[2]) = 2 * CHECKPOINT_INTERVAL
    /\ checkpoint_file.rows = v_out[2]
    /\ output_file.exists
    /\ Len(output_file.rows) > Len(v_out[2])

\* C40 as stated: validate_movie is total and pure: for every record, one with
\* a missing or null year or genres field included, it returns a pair of a
\* verdict and a reason without raising, and the record stays as it was
C40_ValidateMovieTotal ==
    /\ [](v_out /= None => (~v_out.raised /\ v_out.ok \in BOOLEAN /\ (v_out.ok <=> v_out.msg = "")))
    /\ [][v_in' = v_in]_vars

\* What the code does: it returns a pair for every record but those that pass
\* the first four checks with genres present and null, on which it raises
\* TypeError; the record stays as it was
C40_RaisesOnlyOnNullGenres ==
    /\ [](v_out /= None =>
            IF FirstMissingRequired(v_in) = 0 /\ ViolatedChecks(v_in) = {5}
               /\ Has(v_in, "genres") /\ v_in["genres"] = None
            THEN v_out = Raised("TypeError")
            ELSE ~v_out.raised /\ (v_out.ok <=> v_out.msg = ""))
    /\ [][v_in' = v_in]_vars

\* validate_movie has returned a rejection for a record without a genres field
\* and without a year
C40_MissingFieldsReturn ==
    /\ v_out /= None
    /\ ~Has(v_in, "genres")
    /\ ~Has(v_in, "year")
    /\ ViolatedChecks(v_in) = {5}
    /\ v_out = Reject("Generos insuficientes")

====
